---- MODULE Spec2Model ----
(***************************************************************************)
(* solid-x-form: the control tree (createControl), field bindings          *)
(* (createField, registerField / unregisterField) and the validation       *)
(* fan-out, as a state machine.                                            *)
(*                                                                         *)
(* The form value is { a: { x: <leaf> }, b: <leaf> }.  Controls:           *)
(*   0  the root control of createForm                                     *)
(*   1  <Field name="a"> under the root (object valued)                    *)
(*   2  <Field name="x"> under control 1                                   *)
(*   3  <Field name="b"> under the root                                    *)
(*   4  a second <Field name="b"> under the root (same key as 3)           *)
(* Objects carry a reference identity (ref) because the code compares      *)
(* values with ===.                                                        *)
(***************************************************************************)
EXTENDS Integers, Sequences, FiniteSets, TLC

\* ------------------------------------------------------------------ bounds
MaxVal == 1       \* leaf values are 0..MaxVal; 0 stands for the empty string
MaxCalls == 2     \* top-level validate() calls that may be in flight at once
MaxLen == 3       \* longest array value of the array field
MaxTouch == 1     \* blur events counted per control

Val == 0..MaxVal
Slots == 1..MaxCalls

\* ------------------------------------------------------------ tree shape
Root == 0
Fld == {1, 2, 3, 4}
Node == {Root} \cup Fld
NoNode == 0 - 1

\* props.control of the field binding
parentOf(c) == CASE c = 1 -> Root [] c = 2 -> 1 [] c = 3 -> Root [] c = 4 -> Root
\* props.name of the field binding
nameOf(c) == CASE c = 1 -> "a" [] c = 2 -> "x" [] c = 3 -> "b" [] c = 4 -> "b"

VARIABLES
  rootVal,       \* createForm: the value signal
  mounted,       \* which field bindings are live (between onMount and onCleanup)
  fields,        \* per control: the fields Map, in insertion order
  error,         \* per control: the error signal
  ownValidating, \* per control: the _isValidating signal
  isValidated,   \* per control: the isValidated signal
  initialValue,  \* per control: value() captured by createControl
  calls,         \* validate() calls in flight
  last,          \* observer: the step just taken (see the Obs operators)
  written,       \* observer: controls a value write has reached since they were made
  during,        \* observer: what else has happened while the calls were in flight
  aval,          \* the value of a form { list: [...], other: <leaf> } with an array field
  items,         \* per position of aval.list: the control made by <Index> in Fields
  afields,       \* the fields map of the array field's control
  isSubmitting,  \* createForm: the isSubmitting signal
  submitCount,   \* createForm: the submitCount signal
  response,      \* createForm: the response signal
  sub,           \* the handleSubmit call in flight and where it stands
  sub2,          \* a second handleSubmit call, started while the first is in flight
  focused,       \* the control whose element last received focus()
  touchCount,    \* per field: the touchCount signal
  hasRef,        \* per control: whether the ref signal holds an element
  validationMethod \* createForm: props.validationMethod

vars == <<rootVal, mounted, fields, error, ownValidating, isValidated,
          initialValue, calls, last, written, during, aval, items, afields,
          isSubmitting, submitCount, response, sub, sub2, focused, touchCount, hasRef,
          validationMethod>>

\* the form with the array field
arrayVars == <<aval, items, afields>>
\* createForm's own signals and the submission in flight
formVars == <<isSubmitting, submitCount, response, sub, sub2, focused, validationMethod>>
\* the form with the object fields
treeVars == <<rootVal, mounted, fields, error, ownValidating, isValidated,
              initialValue, calls, written, during, formVars, touchCount, hasRef>>

\* ----------------------------------------------------------------- values
InitialRoot == [ref |-> 0, a |-> [ref |-> 0, x |-> 0], b |-> 0]

\* value(): the root signal, or the memo  props.control.value()?.[props.name]
RECURSIVE valueIn(_, _)
valueIn(rv, c) == IF c = Root THEN rv ELSE valueIn(rv, parentOf(c))[nameOf(c)]

value(c) == valueIn(rootVal, c)

\* The reference of an object built by a spread ({...prev}) or a literal: a
\* new allocation, identical to no object a control still holds.  Reference 0
\* is the object of the form's initialValue; the only other object held is the
\* initialValue of control 1.  (Two new objects may get the same number: a
\* write reports by itself which values it replaced, see changed.)
FreshRef(c) ==
  IF c = Root THEN 1 ELSE CHOOSE r \in 1..2 : r # initialValue[1].ref

\* a lens that assigns into the parent value instead of copying it
RECURSIVE setValue_inPlace(_, _)
setValue_inPlace(c, new) ==
  IF c = Root
    THEN new
    ELSE setValue_inPlace(parentOf(c), [value(parentOf(c)) EXCEPT ![nameOf(c)] = new])

\* createField.setValue: the lens; each level shallow-copies its parent value
RECURSIVE setValue(_, _)
setValue(c, new) ==
  IF c = Root
    THEN new
    ELSE setValue(parentOf(c),
                  [value(parentOf(c)) EXCEPT ![nameOf(c)] = new,
                                             !.ref = FreshRef(parentOf(c))])

\* ------------------------------------------------------------- fields map
NoFields == << >>

\* registerField: new Map(prev).set(name, childControl)
registerField(fs, name, child) ==
  IF \E i \in 1..Len(fs) : fs[i].name = name
    THEN [i \in 1..Len(fs) |->
            IF fs[i].name = name THEN [name |-> name, ctl |-> child] ELSE fs[i]]
    ELSE Append(fs, [name |-> name, ctl |-> child])

\* an unregisterField that copies the map and deletes nothing
unregisterField_keep(fs, name) == fs

\* unregisterField: map.delete(name)
unregisterField(fs, name) == SelectSeq(fs, LAMBDA e : e.name # name)

\* fieldArray: [...fields().values()]
fieldArray(c) == [i \in 1..Len(fields[c]) |-> fields[c][i].ctl]

Children(c) == {fields[c][i].ctl : i \in 1..Len(fields[c])}

\* the control and every control reachable from it through fields maps
RECURSIVE RegSubtree(_)
RegSubtree(c) == {c} \cup UNION {RegSubtree(d) : d \in Children(c)}

\* ------------------------------------------------------ derived accessors
\* an isValidating that reads the control's own signal only
isValidating_ownOnly(c) == ownValidating[c]

\* isValidating: _isValidating() || fieldArray().some(f => f.isValidating())
RECURSIVE isValidating(_)
isValidating(c) == ownValidating[c] \/ \E d \in Children(c) : isValidating(d)

\* isInvalid: (isValidated() && Boolean(error())) || fieldArray().some(f => f.isInvalid())
RECURSIVE isInvalid(_)
isInvalid(c) ==
  (isValidated[c] /\ error[c] # "") \/ \E d \in Children(c) : isInvalid(d)

\* isValid: isValidated() && !isInvalid()
isValid_validatedOnly(c) == isValidated[c]
isValid(c) == isValidated[c] /\ ~isInvalid(c)

\* isPristine: initialValue === value()
isPristine(c) == initialValue[c] = value(c)

isDirty(c) == ~isPristine(c)

\* ------------------------------------------------------------- validators
\* What props.validate does with the value it is called with.  kind "none":
\* the control has no validator; "ret": it returns (or resolves to) msg;
\* "throw": it throws msg synchronously; "reject": it returns a promise that
\* rejects with msg.
Outcome(kind, msg) == [kind |-> kind, msg |-> msg]
NoOutcome == Outcome("none", "")

validatorOf(c, v) ==
  CASE c = Root -> IF v.a.x = v.b THEN Outcome("ret", "same") ELSE Outcome("ret", "")
    [] c = 1 -> NoOutcome
    [] c = 2 -> IF v = 0 THEN Outcome("ret", "req") ELSE Outcome("ret", "")
    [] c = 3 -> IF v = 0 THEN Outcome("throw", "boom") ELSE Outcome("ret", "")
    [] c = 4 -> IF v = 0 THEN Outcome("reject", "boom") ELSE Outcome("ret", "")

\* ------------------------------------------------------------------ calls
\* calls is the sequence of top-level validate() calls in flight, each with
\* the child calls it fanned out.  st[n]: "-" n takes no part, "P" n's
\* validateSelf awaits its validator, "S" validateSelf has returned and the
\* call on n awaits its children, "D" the call on n has resolved.  out[n]: what
\* the validator called by validateSelf does.  ret[n]: what validateSelf
\* returned, and once "D" what the call on n resolved to.
Active == 1..Len(calls)

\* the child calls started by the call on n: fieldArray().map(f => f.validate())
Kids(t, n) == {d \in Fld : parentOf(d) = n /\ calls[t].st[d] # "-"}

RECURSIVE Members(_, _)
Members(t, n) == {n} \cup UNION {Members(t, d) : d \in Kids(t, n)}

InFlight(n) == \E t \in Active : calls[t].st[n] \in {"P", "S"}
InSomeCall(n) == \E t \in Active : calls[t].st[n] # "-"

\* a validate() that awaits validateSelf() alone
Ready_ownOnly(t, n) == calls[t].st[n] = "S"

\* a validate() whose continuation is dropped once its control is unmounted
Ready_mountedOnly(t, n) ==
  /\ calls[t].st[n] = "S"
  /\ \A d \in Kids(t, n) : calls[t].st[d] = "D"
  /\ IF n = Root THEN TRUE ELSE mounted[n]

\* a continuation that the microtask queue runs before any further event:
\* a call whose Promise.all has resolved, or the await of a missing validator
Ready(t, n) == calls[t].st[n] = "S" /\ \A d \in Kids(t, n) : calls[t].st[d] = "D"
SyncPending(t, n) == calls[t].st[n] = "P" /\ calls[t].out[n].kind = "none"
\* handleSubmit's continuation after  await control.validate()
SubmitPending == sub.phase = "validated" \/ sub2.phase = "validated"
MicrotaskPending ==
  \/ \E t \in Active, n \in Node : Ready(t, n) \/ SyncPending(t, n)
  \/ SubmitPending

\* -------------------------------------------------------------- observers
\* last and written record what a step did; no action of the program reads
\* them.  A specification chooses which kinds of step it records.
Op(op, node, info) == [op |-> op, node |-> node, info |-> info]
NoOp == Op("none", NoNode, {})

\* ------------------------------------------------------------------- Init
\* response(): undefined, or what a submit callback returned or threw
NoResponse == [kind |-> "none", from |-> ""]
\* no handleSubmit call in flight
Idle == [phase |-> "idle", t |-> 0, result |-> FALSE, during |-> {}, before |-> 0,
         cb |-> "", out |-> "none", formValid |-> FALSE, valid |-> 0, invalid |-> 0,
         focusCalls |-> 0]

Init ==
  /\ rootVal = InitialRoot
  /\ mounted = [c \in Fld |-> FALSE]
  /\ fields = [c \in Node |-> NoFields]
  /\ error = [c \in Node |-> ""]
  /\ ownValidating = [c \in Node |-> FALSE]
  /\ isValidated = [c \in Node |-> FALSE]
  /\ initialValue = [c \in Node |-> valueIn(InitialRoot, c)]
  /\ calls = << >>
  /\ last = NoOp
  /\ written = {}
  /\ during = {}
  /\ aval = [list |-> << >>, other |-> 0]
  /\ items = << >>
  /\ afields = NoFields
  /\ isSubmitting = FALSE
  /\ submitCount = 0
  /\ response = NoResponse
  /\ sub = Idle
  /\ sub2 = Idle
  /\ focused = NoNode
  /\ touchCount = [c \in Node |-> 0]
  /\ hasRef = [c \in Node |-> FALSE]
  /\ validationMethod = "onSubmit"

Alive(c) == IF c = Root THEN TRUE ELSE mounted[c]

\* an unregisterField that resets the state of the control it removes
Garbage_all(mnt, cs) == {c \in Fld : ~mnt[c]}

\* A disposed control that no fields map and no call in flight refers to can
\* no longer be read or written; all such controls are represented by one state.
Garbage(mnt, cs) ==
  {c \in Fld : ~mnt[c] /\ \A t \in 1..Len(cs) : cs[t].st[c] = "-"}

Collect(f, g, blank) == [n \in Node |-> IF n \in g THEN blank[n] ELSE f[n]]

BlankString == [n \in Node |-> ""]
BlankFlag == [n \in Node |-> FALSE]
BlankValue == [n \in Node |-> valueIn(InitialRoot, n)]

\* ---------------------------------------------------------------- actions
\* createField + onMount: createControl({value, setValue, validate}) and
\* registerField(props.control, props.name, control)
\* a field binding that takes over the signals left at its key
created_reused(c) ==
  [initialValue |-> initialValue[c], error |-> error[c],
   isValidating |-> ownValidating[c], isValidated |-> isValidated[c],
   touchCount |-> touchCount[c]]
\* the signals of a new control and field: createControl, createField
created(c) ==
  [initialValue |-> value(c), error |-> "", isValidating |-> FALSE,
   isValidated |-> FALSE, touchCount |-> 0]

Mount(c) ==
  /\ ~MicrotaskPending
  /\ ~mounted[c]
  /\ ~InSomeCall(c)
  /\ Alive(parentOf(c))
  /\ mounted' = [mounted EXCEPT ![c] = TRUE]
  /\ initialValue' = [initialValue EXCEPT ![c] = created(c).initialValue]
  /\ error' = [error EXCEPT ![c] = created(c).error]
  /\ ownValidating' = [ownValidating EXCEPT ![c] = created(c).isValidating]
  /\ isValidated' = [isValidated EXCEPT ![c] = created(c).isValidated]
  /\ fields' = [fields EXCEPT ![c] = NoFields,
                              ![parentOf(c)] = registerField(@, nameOf(c), c)]
  /\ touchCount' = [touchCount EXCEPT ![c] = created(c).touchCount]
  /\ hasRef' = [hasRef EXCEPT ![c] = FALSE]
  /\ UNCHANGED <<rootVal, calls>>

\* the field bindings disposed with c: c and every live binding rendered in it
RECURSIVE Owned(_)
Owned(c) == {c} \cup UNION {Owned(d) : d \in {e \in Fld : parentOf(e) = c /\ mounted[e]}}

\* onCleanup: unregisterField(props.control, props.name), for c and for the
\* bindings rendered inside it
Unmount(c) ==
  /\ ~MicrotaskPending
  /\ mounted[c]
  /\ mounted' = [d \in Fld |-> mounted[d] /\ d \notin Owned(c)]
  /\ fields' = [p \in Node |->
                 IF \E d \in Owned(c) : parentOf(d) = p
                   THEN unregisterField(fields[p],
                          nameOf(CHOOSE d \in Owned(c) : parentOf(d) = p))
                   ELSE fields[p]]
  /\ LET g == Garbage(mounted', calls) IN
       /\ error' = Collect(error, g, BlankString)
       /\ ownValidating' = Collect(ownValidating, g, BlankFlag)
       /\ isValidated' = Collect(isValidated, g, BlankFlag)
       /\ initialValue' = Collect(initialValue, g, BlankValue)
  /\ touchCount' = [d \in Node |-> IF d \in Owned(c) THEN 0 ELSE touchCount[d]]
  /\ hasRef' = [d \in Node |-> d \notin Owned(c) /\ hasRef[d]]
  /\ UNCHANGED <<rootVal, calls>>

\* The values application code passes to setValue of control c; new: the
\* value is an object allocated for this call.
Literal(new, v) == [new |-> new, v |-> v]

Literals(c) ==
  CASE c = Root ->
         {Literal(FALSE, initialValue[Root])}
         \cup {Literal(TRUE, [ref |-> FreshRef(Root), a |-> rootVal.a, b |-> v]) : v \in Val}
    [] c = 1 ->
         {Literal(FALSE, initialValue[1])}
         \cup {Literal(TRUE, [ref |-> FreshRef(1), x |-> v]) : v \in Val}
    [] OTHER -> {Literal(FALSE, v) : v \in Val}

RECURSIVE Ancestors(_)
Ancestors(c) == IF c = Root THEN {} ELSE {parentOf(c)} \cup Ancestors(parentOf(c))

\* value memos that never notify
changed_never(c, lit, rv, n) == FALSE

\* value memos that notify on every write (a memo created with equals: false)
changed_always(c, lit, rv, n) == TRUE

\* whether the write of lit through control c replaces the value() of n: every
\* ancestor's value is a new copy; other values change when they are not ===
changed(c, lit, rv, n) ==
  \/ n \in Ancestors(c)
  \/ n = c /\ lit.new
  \/ valueIn(rv, n) # value(n)

\* a control without the effect on value
valueEffect_none(c, lit, rv) == isValidated

\* createEffect(on(value, () => setIsValidated(false))) of every live control
\* whose value() changed
valueEffect(c, lit, rv) ==
  [n \in Node |-> IF Alive(n) /\ changed(c, lit, rv, n) THEN FALSE ELSE isValidated[n]]

\* control.setValue(lit.v): the root setter, or the lens of a field
SetValue(c, lit) ==
  /\ ~MicrotaskPending
  /\ Alive(c)
  /\ rootVal' = setValue(c, lit.v)
  /\ isValidated' = valueEffect(c, lit, rootVal')
  /\ UNCHANGED <<mounted, fields, error, ownValidating, initialValue, calls>>

\* a validateSelf whose try block does not cover the call of the validator
startSelf_uncaught(c) ==
  LET o == validatorOf(c, value(c)) IN
    IF o.kind = "throw"
      THEN [st |-> "S", out |-> o, caught |-> FALSE, err |-> ""]
      ELSE [st |-> "P", out |-> o, caught |-> FALSE, err |-> ""]

\* validateSelf up to its await: the validator is called with value(); a
\* synchronous throw is caught at once: setError(String(e)); return false
startSelf(c) ==
  LET o == validatorOf(c, value(c)) IN
    IF o.kind = "throw"
      THEN [st |-> "S", out |-> o, caught |-> TRUE, err |-> o.msg]
      ELSE [st |-> "P", out |-> o, caught |-> FALSE, err |-> ""]

\* a batch that sets _isValidating and leaves isValidated alone
batchStart_validatingOnly(m) ==
  [validating |-> [n \in Node |-> IF n \in m THEN TRUE ELSE ownValidating[n]],
   validated |-> isValidated]

\* batch(() => { setIsValidating(true); setIsValidated(false) })  of every
\* control in m
batchStart(m) ==
  [validating |-> [n \in Node |-> IF n \in m THEN TRUE ELSE ownValidating[n]],
   validated |-> [n \in Node |-> IF n \in m THEN FALSE ELSE isValidated[n]]]

\* validate(), the synchronous part, on c and (through fieldArray) on every
\* registered descendant: batch(setIsValidating(true), setIsValidated(false)),
\* then Promise.all([validateSelf(), ...fieldArray().map(f => f.validate())])
validateNow(c) ==
  /\ Alive(c)
  /\ Len(calls) < MaxCalls
  /\ LET m == RegSubtree(c) IN
       /\ ownValidating' = batchStart(m).validating
       /\ isValidated' = batchStart(m).validated
       /\ error' = [n \in Node |->
                      IF n \in m /\ startSelf(n).caught THEN startSelf(n).err ELSE error[n]]
       /\ calls' = Append(calls,
                      [target |-> c,
                       st |-> [n \in Node |-> IF n \in m THEN startSelf(n).st ELSE "-"],
                       out |-> [n \in Node |-> IF n \in m THEN startSelf(n).out ELSE NoOutcome],
                       ret |-> [n \in Node |-> FALSE]])
  /\ UNCHANGED <<rootVal, mounted, fields, initialValue>>

\* validate() called by application code
Validate(c) ==
  /\ ~MicrotaskPending
  /\ validateNow(c)

\* validateSelf returning setError(err) without the negation
settleSelf_notNegated(o) ==
  IF o.kind = "reject" THEN [err |-> o.msg, ret |-> FALSE]
  ELSE [err |-> o.msg, ret |-> (o.msg # "")]

\* validateSelf after its await: return !setError(err), or in the catch
\* setError(String(e)); return false
settleSelf(o) ==
  IF o.kind = "reject" THEN [err |-> o.msg, ret |-> FALSE]
  ELSE [err |-> o.msg, ret |-> (o.msg = "")]

\* a validateSelf that returns without setError
Settle_noSetError(t, n) ==
  /\ t \in Active
  /\ calls[t].st[n] = "P"
  /\ calls' = [calls EXCEPT ![t].st[n] = "S",
                            ![t].ret[n] = settleSelf(calls[t].out[n]).ret]
  /\ UNCHANGED <<rootVal, mounted, fields, error, ownValidating, isValidated,
                 initialValue>>

\* a validateSelf that drops its outcome when a later validate() call has
\* reached the control
setError_latestOnly(t, n) ==
  IF \E u \in Active : u > t /\ calls[u].st[n] # "-" THEN error
  ELSE [error EXCEPT ![n] = settleSelf(calls[t].out[n]).err]

\* setError(err) / setError(String(e)) of the validateSelf of call t on n
setError(t, n) == [error EXCEPT ![n] = settleSelf(calls[t].out[n]).err]

\* a validateSelf that stores its outcome on the parent as well
Settle_onParent(t, n) ==
  /\ t \in Active
  /\ calls[t].st[n] = "P"
  /\ error' = [m \in Node |->
                 IF m = n \/ (n # Root /\ m = parentOf(n))
                   THEN settleSelf(calls[t].out[n]).err ELSE error[m]]
  /\ calls' = [calls EXCEPT ![t].st[n] = "S",
                            ![t].ret[n] = settleSelf(calls[t].out[n]).ret]
  /\ UNCHANGED <<rootVal, mounted, fields, ownValidating, isValidated, initialValue>>

Settle(t, n) ==
  /\ t \in Active
  /\ calls[t].st[n] = "P"
  /\ error' = setError(t, n)
  /\ calls' = [calls EXCEPT ![t].st[n] = "S",
                            ![t].ret[n] = settleSelf(calls[t].out[n]).ret]
  /\ UNCHANGED <<rootVal, mounted, fields, ownValidating, isValidated, initialValue>>

\* result.every(Boolean)
callResult(t, n) == calls[t].ret[n] /\ \A d \in Kids(t, n) : calls[t].ret[d]

Without(cs, t) == [i \in 1..(Len(cs) - 1) |-> IF i < t THEN cs[i] ELSE cs[i + 1]]

\* a batch that clears _isValidating and leaves isValidated alone
batchDone_validatingOnly(n) ==
  [validating |-> [ownValidating EXCEPT ![n] = FALSE], validated |-> isValidated]

\* batch(() => { setIsValidating(false); setIsValidated(true) })
batchDone(n) ==
  [validating |-> [ownValidating EXCEPT ![n] = FALSE],
   validated |-> [isValidated EXCEPT ![n] = TRUE]]

\* validate() after await Promise.all(...): the batch, then
\* return result.every(Boolean)
Finish(t, n) ==
  /\ t \in Active
  /\ Ready(t, n)
  /\ calls' = IF calls[t].target = n
                THEN Without(calls, t)
                ELSE [calls EXCEPT ![t].st[n] = "D", ![t].ret[n] = callResult(t, n)]
  /\ LET g == Garbage(mounted, calls') IN
       /\ ownValidating' = Collect(batchDone(n).validating, g, BlankFlag)
       /\ isValidated' = Collect(batchDone(n).validated, g, BlankFlag)
       /\ error' = Collect(error, g, BlankString)
       /\ initialValue' = Collect(initialValue, g, BlankValue)
  /\ UNCHANGED <<rootVal, mounted, fields>>

\* ------------------------------------------------------- what a step did
ObsMount(c) == Op("mount", c, {})

ObsUnmount(c) == Op("unmount", c, [prevOp |-> last.op, prevNode |-> last.node])

ObsWrite(c, lit) ==
  Op("write", c,
     [new |-> lit.new,
      changed |-> changed(c, lit, setValue(c, lit.v), c),
      wasValidated |-> isValidated[c],
      wasValid |-> isValid(c)])

ObsValidate(c) == Op("validate", c, [members |-> RegSubtree(c)])

ObsSettle(t, n) == Op("settle", n, {})

\* the call on n that resolves: its result, the calls it had fanned out and
\* how each had resolved, and what its own validator had done
ObsFinish(t, n) ==
  Op("resolve", n,
     [result |-> callResult(t, n),
      own |-> calls[t].out[n],
      kids |-> Kids(t, n),
      kidsTrue |-> {d \in Kids(t, n) : calls[t].ret[d]},
      members |-> Members(t, n),
      pending |-> {d \in Members(t, n) \ {n} : calls[t].st[d] # "D"},
      during |-> during])

Record(K, o) == IF o.op \in K THEN o ELSE NoOp
Reached(K, S) == IF "written" \in K THEN S ELSE written
\* what happens while some call is in flight, forgotten once none is
Noted(K, cs, S) == IF "during" \in K /\ Len(cs) > 0 THEN S ELSE {}

\* ---------------------------------------------------------- specifications
\* F: the field bindings that mount; W: the controls application code writes
\* through; mode: "free" (validate() calls overlap, up to MaxCalls) or "serial"
\* (validate() is called only when no call is in flight); K: what the
\* observers record.
MayValidate(mode) == mode = "free" \/ Len(calls) = 0

NextOver(F, W, mode, K) ==
  \/ \E c \in F :
       /\ Mount(c)
       /\ last' = Record(K, ObsMount(c))
       /\ written' = Reached(K, written \ {c})
       /\ UNCHANGED during
       /\ UNCHANGED <<arrayVars, formVars>>
  \/ \E c \in F :
       /\ Unmount(c)
       /\ last' = Record(K, ObsUnmount(c))
       /\ written' = Reached(K, written \ Owned(c))
       /\ UNCHANGED during
       /\ UNCHANGED <<arrayVars, formVars>>
  \/ \E c \in W : \E lit \in Literals(c) :
       /\ SetValue(c, lit)
       /\ last' = Record(K, ObsWrite(c, lit))
       /\ written' = Reached(K, written \cup {c} \cup Ancestors(c))
       /\ during' = Noted(K, calls, during \cup {"write"})
       /\ UNCHANGED <<arrayVars, formVars, touchCount, hasRef>>
  \/ \E c \in F \cup {Root} :
       /\ MayValidate(mode)
       /\ Validate(c)
       /\ last' = Record(K, ObsValidate(c))
       /\ during' = Noted(K, calls, during \cup {"overlap"})
       /\ UNCHANGED written
       /\ UNCHANGED <<arrayVars, formVars, touchCount, hasRef>>
  \/ \E t \in Slots : \E n \in Node :
       /\ Settle(t, n)
       /\ last' = Record(K, ObsSettle(t, n))
       /\ UNCHANGED <<written, during>>
       /\ UNCHANGED <<arrayVars, formVars, touchCount, hasRef>>
  \/ \E t \in Slots : \E n \in Node :
       /\ Finish(t, n)
       /\ last' = Record(K, ObsFinish(t, n))
       /\ during' = Noted(K, calls', during)
       /\ UNCHANGED written
       /\ UNCHANGED <<arrayVars, formVars, touchCount, hasRef>>

\* the value and the control tree alone: no validate() call is made
NextValue(K) ==
  \/ \E c \in Fld :
       /\ Mount(c)
       /\ last' = Record(K, ObsMount(c))
       /\ written' = Reached(K, written \ {c})
       /\ UNCHANGED during
       /\ UNCHANGED <<arrayVars, formVars>>
  \/ \E c \in Fld :
       /\ Unmount(c)
       /\ last' = Record(K, ObsUnmount(c))
       /\ written' = Reached(K, written \ Owned(c))
       /\ UNCHANGED during
       /\ UNCHANGED <<arrayVars, formVars>>
  \/ \E c \in Node : \E lit \in Literals(c) :
       /\ SetValue(c, lit)
       /\ last' = Record(K, ObsWrite(c, lit))
       /\ written' = Reached(K, written \cup {c} \cup Ancestors(c))
       /\ UNCHANGED during
       /\ UNCHANGED <<arrayVars, formVars, touchCount, hasRef>>

\* the fields a -> x below the root, overlapping validate() calls, writes
\* through the leaf
Spec ==
  Init /\ [][NextOver({1, 2}, {2}, "free", {"resolve", "during"})]_vars

\* the same tree, one validate() call at a time, writes through every control
SpecSerial ==
  Init /\ [][NextOver({1, 2}, {Root, 1, 2}, "serial",
                      {"resolve", "write", "mount", "unmount"})]_vars

\* the fields a, b and a second b below the root, one validate() call at a
\* time, writes through the root and the first b
SpecFlat ==
  Init /\ [][NextOver({1, 3, 4}, {Root, 3}, "serial", {"resolve"})]_vars

\* every field binding, every kind of write, no validation
SpecValue ==
  Init /\ [][NextValue({"write", "written"})]_vars

\* ------------------------------------------------------------ array field
\* A second form, { list: [...], other: <leaf> }, with createArrayField bound
\* to "list".  JavaScript indices start at 0: index i is position i + 1 of the
\* sequence.  Undef is the JavaScript undefined (a hole, or a read past the
\* end).
Undef == 0 - 1
Idx == (0 - 1)..MaxLen
Min2(a, b) == IF a < b THEN a ELSE b
Max2(a, b) == IF a > b THEN a ELSE b

\* Array.prototype.splice(start, deleteCount, ...ins) on a copy of p
splice(p, start, deleteCount, ins) ==
  LET s == IF start < 0 THEN Max2(Len(p) + start, 0) ELSE Min2(start, Len(p))
      d == Min2(Max2(deleteCount, 0), Len(p) - s)
  IN SubSeq(p, 1, s) \o ins \o SubSeq(p, s + d + 1, Len(p))

\* array[i]
at(p, i) == IF i >= 0 /\ i < Len(p) THEN p[i + 1] ELSE Undef

\* array[i] = v: past the end the array grows and the gap reads undefined; a
\* negative i names a property, not an element
put(p, i, v) ==
  IF i < 0 THEN p
  ELSE [k \in 1..Max2(Len(p), i + 1) |-> IF k = i + 1 THEN v ELSE at(p, k - 1)]

\* a method that splices the array it was given:  const array = p
spread_alias(p) == [array |-> p, fresh |-> FALSE]
\* [...p]: an array of its own with the elements of p
spread(p) == [array |-> p, fresh |-> TRUE]
\* what the array p holds once a method has built new from spread(p)
previous(p, new) == IF spread(p).fresh THEN spread(p).array ELSE new

\* createArrayMethods; p is an array, so the test "p ?" succeeds
append_atFront(p, item) == <<item>> \o p
append(p, item) == p \o <<item>>
prepend(p, item) == <<item>> \o p
insert_overwrite(p, index, item) == splice(p, index, 1, <<item>>)
insert(p, index, item) == splice(p, index, 0, <<item>>)
\* a replace that shifts the items from index on instead of deleting one
replace_shift(p, index, item) == splice(p, index, 0, <<item>>)
replace(p, index, item) == splice(p, index, 1, <<item>>)
remove(p, index) == splice(p, index, 1, << >>)
\* a swap that reads array[indexB] after array[indexA] = b
swap_noTemp(p, indexA, indexB) ==
  put(put(p, indexA, at(p, indexB)), indexB, at(put(p, indexA, at(p, indexB)), indexA))
swap(p, indexA, indexB) == put(put(p, indexA, at(p, indexB)), indexB, at(p, indexA))

\* a lens that splices without deleting the element it replaces
itemSetValue_insert(p, index, val) == splice(p, index, 0, <<val>>)

\* the lens of a field bound to an index of an array: createField.setValue on
\* an array parent, and the item setter of Fields
itemSetValue(p, index, val) == splice(p, index, 1, <<val>>)

\* the lens of a field bound to a key of the form: { ...prev, [name]: newValue }
keySetValue(prev, name, newValue) == [prev EXCEPT ![name] = newValue]

\* the item validator: required("req")
itemValidator(v) == IF v = Undef \/ v = 0 THEN "req" ELSE ""

\* createControl and the touchCount signal of an item of Fields
freshItem(v) == [init |-> v, error |-> "", validated |-> FALSE, touch |-> 0]

\* the positions whose control <Index> keeps when the array changes
kept(its, new) == 1..Min2(Len(its), Len(new))

\* <Index each={field.value()}>: one control per position; a position that is
\* still there keeps its control (whose value effect runs if the item at the
\* position changed), a new position gets a new control, a position that is
\* gone has its control disposed and unregistered
reindex(old, new, its) ==
  [k \in 1..Len(new) |->
     IF k \in kept(its, new)
       THEN IF new[k] # old[k] THEN [its[k] EXCEPT !.validated = FALSE] ELSE its[k]
       ELSE freshItem(new[k])]

\* a rendering whose disposed items leave their entries in the map
unregisterFrom_none(fs, lo, hi) == fs

\* onCleanup(() => unregisterField(field.control, index)) of the items at
\* the indices lo..hi
RECURSIVE unregisterFrom(_, _, _)
unregisterFrom(fs, lo, hi) ==
  IF lo > hi THEN fs ELSE unregisterFrom(unregisterField(fs, lo), lo + 1, hi)

\* onMount(() => registerField(field.control, index, control)) of the items
\* at the indices lo..hi; the control of index i is the one at position i + 1
RECURSIVE registerFrom(_, _, _)
registerFrom(fs, lo, hi) ==
  IF lo > hi THEN fs ELSE registerFrom(registerField(fs, lo, lo + 1), lo + 1, hi)

\* the fields map once <Index> has rendered new: the items past the end of
\* new are disposed, the positions new has gained are created
rendered(fs, its, new) ==
  registerFrom(unregisterFrom(fs, Len(new), Len(its) - 1), Len(its), Len(new) - 1)

\* field.setValue(new) of the array field, and the rendering that follows
SetList(new) ==
  /\ Len(new) <= MaxLen
  /\ aval' = keySetValue(aval, "list", new)
  /\ items' = reindex(aval.list, new, items)
  /\ afields' = rendered(afields, items, new)

\* setValue of the field bound to "other"
SetOther(v) ==
  /\ aval' = keySetValue(aval, "other", v)
  /\ UNCHANGED <<items, afields>>

\* onBlur of an item: setTouchCount(v => v + 1)
Blur(k) ==
  /\ k \in 1..Len(items)
  /\ items[k].touch < MaxTouch
  /\ items' = [items EXCEPT ![k].touch = @ + 1]
  /\ UNCHANGED <<aval, afields>>

\* validate() of an item control with its synchronous validator: every
\* continuation is a microtask, so it completes before the next event
ValidateItem(k) ==
  /\ k \in 1..Len(items)
  /\ items' = [items EXCEPT ![k].error = itemValidator(aval.list[k]),
                            ![k].validated = TRUE]
  /\ UNCHANGED <<aval, afields>>

\* the array step taken after a step whose effect it should undo
Follows(op, i, j) ==
  \/ op = "remove" /\ last.op = "insert" /\ last.node = i
  \/ op = "remove" /\ last.op = "append" /\ i = Len(aval.list) - 1
  \/ op = "swap" /\ last.op = "swap" /\ last.node = i /\ last.info.j = j

\* an array step: its arguments, the form value before it and, if it follows
\* the step it should undo, that step and the array before it
ObsArray(op, i, j, x, new) ==
  Op(op, i,
     [j |-> j, x |-> x,
      before |-> aval.list,
      left |-> previous(aval.list, new),
      other |-> aval.other,
      prev |-> IF Follows(op, i, j) THEN last.op ELSE "none",
      undoes |-> IF Follows(op, i, j) THEN <<last.info.before>> ELSE << >>])

ArrayStep(op, i, j, x, new) ==
  /\ SetList(new)
  /\ last' = ObsArray(op, i, j, x, new)
  /\ UNCHANGED treeVars

NextArray ==
  \/ \E x \in Val : ArrayStep("append", 0, 0, x, append(aval.list, x))
  \/ \E x \in Val : ArrayStep("prepend", 0, 0, x, prepend(aval.list, x))
  \/ \E i \in Idx, x \in Val : ArrayStep("insert", i, 0, x, insert(aval.list, i, x))
  \/ \E i \in Idx, x \in Val : ArrayStep("replace", i, 0, x, replace(aval.list, i, x))
  \/ \E i \in Idx : ArrayStep("remove", i, 0, 0, remove(aval.list, i))
  \/ \E i \in Idx, j \in Idx : ArrayStep("swap", i, j, 0, swap(aval.list, i, j))
  \/ \E i \in Idx, x \in Val : ArrayStep("item", i, 0, x, itemSetValue(aval.list, i, x))
  \/ \E v \in Val :
       /\ SetOther(v)
       /\ last' = ObsArray("other", 0, 0, v, aval.list)
       /\ UNCHANGED treeVars

\* the array field: its methods and the lenses of its items
SpecArray == Init /\ [][NextArray]_vars

\* ------------------------------------------------------------- handleSubmit
\* One handleSubmit(onValid, onInvalid) call is in flight at a time.  Its
\* steps: the synchronous part up to  await control.validate()  (Submit), the
\* continuation up to the await of the callback's result (Continue), and the
\* rest (CallbackSettle).  A callback returns, throws, or returns a promise
\* that rejects.
MaxSubmits == 2
CallbackOutcomes == {"ret", "throw", "reject"}

\* getInputProps / ref: the element of a rendered control reaches the ref signal
AttachRef(c) ==
  /\ ~MicrotaskPending
  /\ Alive(c)
  /\ ~hasRef[c]
  /\ hasRef' = [hasRef EXCEPT ![c] = TRUE]
  /\ UNCHANGED <<rootVal, mounted, fields, error, ownValidating, isValidated,
                 initialValue, calls, touchCount>>

\* a focusError that does not descend into the fields
focusError_ownOnly(c) == IF hasRef[c] /\ isInvalid(c) THEN c ELSE NoNode

\* focusError(): the control whose element receives focus(), NoNode when
\* focusError() returns false
RECURSIVE focusError(_)
focusError(c) ==
  IF hasRef[c] /\ isInvalid(c) THEN c
  ELSE LET fa == fieldArray(c)
           hits == {i \in 1..Len(fa) : focusError(fa[i]) # NoNode}
       IN IF hits = {} THEN NoNode
          ELSE focusError(fa[CHOOSE i \in hits : \A j \in hits : i <= j])

\* createMemo(() => submitCount() > 0)
isSubmitted == submitCount > 0

\* the handleSubmit calls that have not reached the end of their finally block
InFlightSubmits == {r \in {sub, sub2} : r.phase # "idle"}

\* try { await control.validate()    of the call recorded in r
handleSubmit(r, rNext) ==
  /\ r.phase = "idle"
  /\ submitCount + Cardinality(InFlightSubmits) < MaxSubmits
  /\ Validate(Root)
  /\ rNext = [Idle EXCEPT !.phase = "validating", !.t = Len(calls) + 1,
                          !.before = submitCount]
  /\ UNCHANGED <<isSubmitting, submitCount, response, focused, touchCount, hasRef,
                 validationMethod>>

Submit == handleSubmit(sub, sub') /\ UNCHANGED sub2

\* a validate() call resolves; the one handleSubmit awaits makes its
\* continuation runnable
AwaitedBy(r, t, n) ==
  IF calls[t].target # n \/ r.phase # "validating" THEN r
  ELSE IF r.t = t
    THEN [r EXCEPT !.phase = "validated", !.t = 0,
                   !.result = callResult(t, n), !.during = during]
  ELSE IF t < r.t THEN [r EXCEPT !.t = @ - 1]
  ELSE r

Awaited(t, n) == AwaitedBy(sub, t, n)

\* } finally { setIsSubmitting(false); setSubmitCount((v) => v + 1) }  without
\* the second statement
finally_noCount == submitCount

\* a finally that only marks the form as submitted: setSubmitCount((v) => v || 1)
finally_flag == IF submitCount = 0 THEN submitCount + 1 ELSE submitCount

finally == submitCount + 1

\* a catch that does not store the exception
settled_dropError(out, cb) ==
  IF out = "ret" THEN [kind |-> "result", from |-> cb] ELSE NoResponse
\* what setResponse receives: the callback's result, or in catch the exception
settled(out, cb) == [kind |-> IF out = "ret" THEN "result" ELSE "error", from |-> cb]

ObsSubmitted(r, resp) ==
  Op("submitted", Root,
     [result |-> r.result, during |-> r.during, before |-> r.before,
      cb |-> r.cb, out |-> r.out, formValid |-> r.formValid,
      valid |-> r.valid, invalid |-> r.invalid,
      focusCalls |-> r.focusCalls, response |-> resp])

\* batch(() => { setIsSubmitting(true); setResponse() });
\* if (control.isValid()) ... else { control.focusError(); ... }
ContinueBy(s, sNext) ==
  /\ s.phase = "validated"
  /\ \E o \in CallbackOutcomes :
       LET v == isValid(Root)
           r == [s EXCEPT !.cb = IF v THEN "onValid" ELSE "onInvalid",
                            !.out = o,
                            !.formValid = v,
                            !.valid = IF v THEN @ + 1 ELSE @,
                            !.invalid = IF v THEN @ ELSE @ + 1,
                            !.focusCalls = IF v THEN @ ELSE @ + 1]
           thrown == settled(o, r.cb)
       IN /\ focused' = IF ~v /\ focusError(Root) # NoNode
                          THEN focusError(Root) ELSE focused
          /\ IF o = "throw"
               THEN /\ response' = thrown
                    /\ isSubmitting' = FALSE
                    /\ submitCount' = finally
                    /\ sNext = Idle
                    /\ last' = ObsSubmitted(r, thrown)
               ELSE /\ response' = NoResponse
                    /\ isSubmitting' = TRUE
                    /\ sNext = [r EXCEPT !.phase = "callback"]
                    /\ last' = NoOp
                    /\ UNCHANGED submitCount
  /\ UNCHANGED <<written, during, touchCount, hasRef, validationMethod>>

ContinueForm == ContinueBy(sub, sub') /\ UNCHANGED sub2

Continue ==
  /\ ContinueForm
  /\ UNCHANGED <<rootVal, mounted, fields, error, ownValidating, isValidated,
                 initialValue, calls>>

\* setResponse(await onValid?.(...)) / setResponse(await onInvalid?.(...)),
\* catch (e) { setResponse(e) }, finally
CallbackSettleBy(s, sNext) ==
  /\ s.phase = "callback"
  /\ LET resp == settled(s.out, s.cb)
     IN /\ response' = resp
        /\ last' = ObsSubmitted(s, resp)
  /\ isSubmitting' = FALSE
  /\ submitCount' = finally
  /\ sNext = Idle
  /\ UNCHANGED <<written, during, focused, touchCount, hasRef, validationMethod>>

CallbackSettleForm == CallbackSettleBy(sub, sub') /\ UNCHANGED sub2

CallbackSettle ==
  /\ CallbackSettleForm
  /\ UNCHANGED <<rootVal, mounted, fields, error, ownValidating, isValidated,
                 initialValue, calls>>

\* during: whether anything else happened (a write, a mount, an unmount,
\* the start of a validate() call) while validate() calls were in flight
NextSubmit(F, W) ==
  \/ \E c \in F :
       /\ Mount(c)
       /\ during' = Noted({"during"}, calls, during \cup {"event"})
       /\ last' = NoOp
       /\ UNCHANGED <<written, arrayVars, formVars>>
  \/ \E c \in F :
       /\ Unmount(c)
       /\ during' = Noted({"during"}, calls, during \cup {"event"})
       /\ last' = NoOp
       /\ UNCHANGED <<written, arrayVars, formVars>>
  \/ \E c \in F :
       /\ AttachRef(c)
       /\ last' = NoOp
       /\ UNCHANGED <<written, during, arrayVars, formVars>>
  \/ \E c \in W : \E lit \in Literals(c) :
       /\ SetValue(c, lit)
       /\ during' = Noted({"during"}, calls, during \cup {"event"})
       /\ last' = NoOp
       /\ UNCHANGED <<written, arrayVars, formVars, touchCount, hasRef>>
  \/ /\ Validate(Root)
     /\ during' = Noted({"during"}, calls, during \cup {"event"})
     /\ last' = NoOp
     /\ UNCHANGED <<written, arrayVars, formVars, touchCount, hasRef>>
  \/ /\ Submit
     /\ during' = Noted({"during"}, calls, during \cup {"event"})
     /\ last' = NoOp
     /\ UNCHANGED <<written, arrayVars>>
  \/ \E t \in Slots : \E n \in Node :
       /\ Settle(t, n)
       /\ last' = NoOp
       /\ UNCHANGED <<written, during, arrayVars, formVars, touchCount, hasRef>>
  \/ \E t \in Slots : \E n \in Node :
       /\ Finish(t, n)
       /\ sub' = Awaited(t, n)
       /\ during' = Noted({"during"}, calls', during)
       /\ last' = NoOp
       /\ UNCHANGED <<written, arrayVars, isSubmitting, submitCount, sub2,
                      response, focused, touchCount, hasRef, validationMethod>>
  \/ Continue /\ UNCHANGED arrayVars
  \/ CallbackSettle /\ UNCHANGED arrayVars

\* a form with the field b, whose validator throws on 0, and the root
\* validator; handleSubmit among writes, mounts and further validate() calls
SpecSubmit == Init /\ [][NextSubmit({3}, {3})]_vars

\* -------------------------------------------- overlapping handleSubmit calls
\* handleSubmit is an async function of the form; nothing keeps the
\* application from calling it again before an earlier call has finished.
\* Both calls read and write the same isSubmitting, response and submitCount
\* signals.  written holds one entry per handleSubmit call made: its number
\* and whether another call was in flight when it was made.
Made == [call |-> Cardinality(written) + 1, overlaps |-> InFlightSubmits # {}]

NextOverlap(W) ==
  \/ \E c \in W : \E lit \in Literals(c) :
       /\ SetValue(c, lit)
       /\ last' = NoOp
       /\ UNCHANGED <<written, during, arrayVars, formVars, touchCount, hasRef>>
  \/ /\ handleSubmit(sub, sub')
     /\ written' = written \cup {Made}
     /\ last' = NoOp
     /\ UNCHANGED <<during, arrayVars, sub2>>
  \/ /\ sub.phase # "idle"
     /\ handleSubmit(sub2, sub2')
     /\ written' = written \cup {Made}
     /\ last' = NoOp
     /\ UNCHANGED <<during, arrayVars, sub>>
  \/ \E t \in Slots : \E n \in Node :
       /\ Settle(t, n)
       /\ last' = NoOp
       /\ UNCHANGED <<written, during, arrayVars, formVars, touchCount, hasRef>>
  \/ \E t \in Slots : \E n \in Node :
       /\ Finish(t, n)
       /\ sub' = AwaitedBy(sub, t, n)
       /\ sub2' = AwaitedBy(sub2, t, n)
       /\ last' = NoOp
       /\ UNCHANGED <<written, during, arrayVars, isSubmitting, submitCount,
                      response, focused, touchCount, hasRef, validationMethod>>
  \/ /\ ContinueBy(sub, sub')
     /\ UNCHANGED <<rootVal, mounted, fields, error, ownValidating, isValidated,
                    initialValue, calls, arrayVars, sub2>>
  \/ /\ ContinueBy(sub2, sub2')
     /\ UNCHANGED <<rootVal, mounted, fields, error, ownValidating, isValidated,
                    initialValue, calls, arrayVars, sub>>
  \/ /\ CallbackSettleBy(sub, sub')
     /\ UNCHANGED <<rootVal, mounted, fields, error, ownValidating, isValidated,
                    initialValue, calls, arrayVars, sub2>>
  \/ /\ CallbackSettleBy(sub2, sub2')
     /\ UNCHANGED <<rootVal, mounted, fields, error, ownValidating, isValidated,
                    initialValue, calls, arrayVars, sub>>

\* the form without fields; up to two handleSubmit calls in flight among
\* writes of the form's value
SpecOverlap == Init /\ [][NextOverlap({Root})]_vars


\* ---------------------------------------- the value a submission validated
\* what the validators see of a form value: its leaves
content(rv) == [x |-> rv.a.x, b |-> rv.b]

\* Here written holds the content of the value the validation of the
\* handleSubmit call in flight has read.
NextStale(W) ==
  \/ \E c \in W : \E lit \in Literals(c) :
       /\ SetValue(c, lit)
       /\ last' = NoOp
       /\ UNCHANGED <<written, during, arrayVars, formVars, touchCount, hasRef>>
  \/ /\ handleSubmit(sub, sub')
     /\ written' = {content(rootVal)}
     /\ last' = NoOp
     /\ UNCHANGED <<during, arrayVars, sub2>>
  \/ \E t \in Slots : \E n \in Node :
       /\ Settle(t, n)
       /\ last' = NoOp
       /\ UNCHANGED <<written, during, arrayVars, formVars, touchCount, hasRef>>
  \/ \E t \in Slots : \E n \in Node :
       /\ Finish(t, n)
       /\ sub' = AwaitedBy(sub, t, n)
       /\ last' = NoOp
       /\ UNCHANGED <<written, during, arrayVars, isSubmitting, submitCount, sub2,
                      response, focused, touchCount, hasRef, validationMethod>>
  \/ /\ ContinueBy(sub, sub')
     /\ UNCHANGED <<rootVal, mounted, fields, error, ownValidating, isValidated,
                    initialValue, calls, arrayVars, sub2>>
  \/ /\ CallbackSettleBy(sub, sub')
     /\ UNCHANGED <<rootVal, mounted, fields, error, ownValidating, isValidated,
                    initialValue, calls, arrayVars, sub2>>

\* the form without fields: one handleSubmit call at a time among writes of
\* the form's value
SpecStale == Init /\ [][NextStale({Root})]_vars

\* -------------------------------------------------------------- termination
\* The steps of the program itself, which happen whenever they can: a
\* validator invocation settles, a validate() call resolves, handleSubmit
\* continues after an await.  last names a validate() call that has resolved
\* and the controls it had reached that are no longer mounted.
SettleLive(t, n) ==
  /\ Settle(t, n)
  /\ last' = NoOp
  /\ UNCHANGED <<written, during, arrayVars, formVars, touchCount, hasRef>>

FinishLive(t, n) ==
  /\ Finish(t, n)
  /\ sub' = AwaitedBy(sub, t, n)
  /\ last' = IF calls[t].target = n
               THEN Op("resolve", n, [gone |-> {d \in Members(t, n) : ~Alive(d)}])
               ELSE NoOp
  /\ UNCHANGED <<written, during, arrayVars, isSubmitting, submitCount, sub2,
                 response, focused, touchCount, hasRef, validationMethod>>

ContinueLive ==
  /\ ContinueBy(sub, sub')
  /\ UNCHANGED <<rootVal, mounted, fields, error, ownValidating, isValidated,
                 initialValue, calls, arrayVars, sub2>>

CallbackSettleLive ==
  /\ CallbackSettleBy(sub, sub')
  /\ UNCHANGED <<rootVal, mounted, fields, error, ownValidating, isValidated,
                 initialValue, calls, arrayVars, sub2>>

\* validate() is called on a control when no call is in flight, handleSubmit
\* at any time
NextLive(F, W) ==
  \/ \E c \in F :
       /\ Mount(c)
       /\ last' = NoOp
       /\ UNCHANGED <<written, during, arrayVars, formVars>>
  \/ \E c \in F :
       /\ Unmount(c)
       /\ last' = NoOp
       /\ UNCHANGED <<written, during, arrayVars, formVars>>
  \/ \E c \in W : \E lit \in Literals(c) :
       /\ SetValue(c, lit)
       /\ last' = NoOp
       /\ UNCHANGED <<written, during, arrayVars, formVars, touchCount, hasRef>>
  \/ \E c \in F \cup {Root} :
       /\ MayValidate("serial")
       /\ Validate(c)
       /\ last' = NoOp
       /\ UNCHANGED <<written, during, arrayVars, formVars, touchCount, hasRef>>
  \/ /\ handleSubmit(sub, sub')
     /\ last' = NoOp
     /\ UNCHANGED <<written, during, arrayVars, sub2>>
  \/ \E t \in Slots : \E n \in Node : SettleLive(t, n)
  \/ \E t \in Slots : \E n \in Node : FinishLive(t, n)
  \/ ContinueLive
  \/ CallbackSettleLive

\* every validator invocation settles, every continuation runs
Fairness ==
  /\ \A t \in Slots : \A n \in Node :
       WF_vars(SettleLive(t, n)) /\ WF_vars(FinishLive(t, n))
  /\ WF_vars(ContinueLive)
  /\ WF_vars(CallbackSettleLive)

\* the form with the field b, mounted and unmounted also while its
\* validation is in flight
SpecLive == Init /\ [][NextLive({3}, {3})]_vars /\ Fairness

\* ------------------------------------------------- mounting a field again
\* getInputProps: onBlur: (e) => field.setTouchCount((v) => v + 1)
onBlur(c) ==
  /\ ~MicrotaskPending
  /\ mounted[c]
  /\ touchCount[c] < MaxTouch
  /\ touchCount' = [touchCount EXCEPT ![c] = @ + 1]
  /\ UNCHANGED <<rootVal, mounted, fields, error, ownValidating, isValidated,
                 initialValue, calls, hasRef>>

\* what the control at c's key holds when it is unmounted
Had(c) ==
  [error |-> error[c], isValidated |-> isValidated[c], dirty |-> isDirty(c),
   touchCount |-> touchCount[c]]
NoHad == [error |-> "", isValidated |-> FALSE, dirty |-> FALSE, touchCount |-> 0]

\* a mount, with what the control unmounted at the same key just before held
ObsRemount(c) ==
  Op("mount", c,
     [parentValue |-> value(parentOf(c))[nameOf(c)],
      had |-> IF last.op = "unmount" /\ last.node = c THEN last.info.had ELSE NoHad])

NextMount(F, W) ==
  \/ \E c \in F :
       /\ Mount(c)
       /\ last' = ObsRemount(c)
       /\ UNCHANGED <<written, during, arrayVars, formVars>>
  \/ \E c \in F :
       /\ Unmount(c)
       /\ last' = Op("unmount", c, [had |-> Had(c)])
       /\ UNCHANGED <<written, during, arrayVars, formVars>>
  \/ \E c \in F :
       /\ onBlur(c)
       /\ last' = NoOp
       /\ UNCHANGED <<written, during, arrayVars, formVars>>
  \/ \E c \in W : \E lit \in Literals(c) :
       /\ SetValue(c, lit)
       /\ last' = NoOp
       /\ UNCHANGED <<written, during, arrayVars, formVars, touchCount, hasRef>>
  \/ \E c \in F \cup {Root} :
       /\ MayValidate("serial")
       /\ Validate(c)
       /\ last' = NoOp
       /\ UNCHANGED <<written, during, arrayVars, formVars, touchCount, hasRef>>
  \/ \E t \in Slots : \E n \in Node :
       /\ Settle(t, n)
       /\ last' = NoOp
       /\ UNCHANGED <<written, during, arrayVars, formVars, touchCount, hasRef>>
  \/ \E t \in Slots : \E n \in Node :
       /\ Finish(t, n)
       /\ last' = NoOp
       /\ UNCHANGED <<written, during, arrayVars, formVars, touchCount, hasRef>>

\* the fields a and b, mounted, blurred, written, validated one call at a
\* time, unmounted and mounted again
SpecMount == Init /\ [][NextMount({1, 3}, {3})]_vars

\* ------------------------------------------------ the controls of the items
\* the array methods that shift items, with indices inside the array, among
\* blurs and validations of single items
ItemStep(op, i, new) ==
  /\ SetList(new)
  /\ last' = Op(op, i, {})
  /\ UNCHANGED treeVars

NextItems ==
  \/ \E x \in Val : ItemStep("append", Len(aval.list), append(aval.list, x))
  \/ \E x \in Val : ItemStep("prepend", 0, prepend(aval.list, x))
  \/ \E i \in 0..Len(aval.list), x \in Val : ItemStep("insert", i, insert(aval.list, i, x))
  \/ \E i \in 0..(Len(aval.list) - 1) : ItemStep("remove", i, remove(aval.list, i))
  \/ \E k \in 1..MaxLen : Blur(k) /\ last' = NoOp /\ UNCHANGED treeVars
  \/ \E k \in 1..MaxLen : ValidateItem(k) /\ last' = NoOp /\ UNCHANGED treeVars

SpecItems == Init /\ [][NextItems]_vars

\* --------------------------------------------------------------- focusError
\* the controls reachable through the fields maps from the controls of seq,
\* a parent before its fields, the fields in the order of the map
RECURSIVE preorderOf(_)
preorderOf(seq) ==
  IF seq = << >> THEN << >>
  ELSE <<Head(seq)>> \o preorderOf(fieldArray(Head(seq)) \o Tail(seq))

\* ------------------------------------------------------------ getErrorList
\* a getErrorList without the final filter(Boolean)
getErrorList_noFilter(c) ==
  LET order == preorderOf(<<c>>) IN [k \in 1..Len(order) |-> error[order[k]]]

\* control.fields().forEach((c) => { list.push(...getErrorList(c)) })
RECURSIVE getErrorList(_), pushAll(_, _)
pushAll(list, fa) ==
  IF fa = << >> THEN list ELSE pushAll(list \o getErrorList(Head(fa)), Tail(fa))

\* const list = [control.error()]; ...; return list.filter(Boolean)
getErrorList(c) ==
  SelectSeq(pushAll(<<error[c]>>, fieldArray(c)), LAMBDA e : e # "")

\* application code calls control.focusError()
FocusError(c) ==
  /\ ~MicrotaskPending
  /\ Alive(c)
  /\ focused' = IF focusError(c) # NoNode THEN focusError(c) ELSE focused
  /\ last' = Op("focus", c, [ret |-> focusError(c) # NoNode, before |-> focused])
  /\ UNCHANGED <<rootVal, mounted, fields, error, ownValidating, isValidated,
                 initialValue, calls, written, during, arrayVars, isSubmitting,
                 submitCount, response, sub, sub2, touchCount, hasRef, validationMethod>>

NextFocus(F, W) ==
  \/ \E c \in F :
       /\ Mount(c)
       /\ last' = NoOp
       /\ UNCHANGED <<written, during, arrayVars, formVars>>
  \/ \E c \in F \cup {Root} :
       /\ AttachRef(c)
       /\ last' = NoOp
       /\ UNCHANGED <<written, during, arrayVars, formVars>>
  \/ \E c \in W : \E lit \in Literals(c) :
       /\ SetValue(c, lit)
       /\ last' = NoOp
       /\ UNCHANGED <<written, during, arrayVars, formVars, touchCount, hasRef>>
  \/ /\ MayValidate("serial")
     /\ Validate(Root)
     /\ last' = NoOp
     /\ UNCHANGED <<written, during, arrayVars, formVars, touchCount, hasRef>>
  \/ \E t \in Slots : \E n \in Node :
       /\ Settle(t, n)
       /\ last' = NoOp
       /\ UNCHANGED <<written, during, arrayVars, formVars, touchCount, hasRef>>
  \/ \E t \in Slots : \E n \in Node :
       /\ Finish(t, n)
       /\ last' = NoOp
       /\ UNCHANGED <<written, during, arrayVars, formVars, touchCount, hasRef>>
  \/ \E c \in F \cup {Root} : FocusError(c)

\* the fields a -> x and b, mounted in any order and given their elements,
\* validated from the root one call at a time; focusError() on any control
SpecFocus == Init /\ [][NextFocus({1, 2, 3}, {2})]_vars

\* --------------------------------------------------------------- validators
\* validations.ts.  Values: undefined, null, strings and numbers.
Undefined == [kind |-> "undefined", s |-> "", n |-> 0]
Null == [kind |-> "null", s |-> "", n |-> 0]
Str(s) == [kind |-> "string", s |-> s, n |-> 0]
Num(n) == [kind |-> "number", s |-> "", n |-> n]
Strings == {Str(s) : s \in {"", "a", "b", "ab"}}
Numbers == {Num(n) : n \in 0..(MaxVal + 1)}
length(v) == IF v.s = "" THEN 0 ELSE IF v.s = "ab" THEN 2 ELSE 1
\* /^a/.test(v)
test(v) == v.s \in {"a", "ab"}

\* the optional chain argument, and what it returns for the value at hand
NoChain == [present |-> FALSE, r |-> ""]
Chains == {NoChain} \cup {[present |-> TRUE, r |-> r] : r \in {"", "next"}}
\* chain?.(v) ?? dflt
chained(chain, dflt) == IF chain.present THEN chain.r ELSE dflt

required(msg, chain, v) ==
  IF v = Undefined \/ v = Null \/ v = Str("") THEN msg ELSE chained(chain, "")
\* fn: the string is not empty
custom(msg, chain, v) == IF v.s # "" THEN msg ELSE chained(chain, "")
minLength(len, msg, chain, v) == IF length(v) < len THEN msg ELSE chained(chain, "")
maxLength(len, msg, chain, v) == IF length(v) > len THEN msg ELSE chained(chain, "")
max(m, msg, chain, v) == IF v.n > m THEN msg ELSE chained(chain, "")
min(m, msg, chain, v) == IF v.n < m THEN msg ELSE chained(chain, "")
pattern(msg, chain, v) == IF test(v) THEN "" ELSE chained(chain, msg)
equals(value_, msg, chain, v) == IF v = value_ THEN "" ELSE chained(chain, msg)

\* a validator built by factory f is applied to v; passes: whether the
\* factory's own check, as its documentation words it, accepts v
ObsValidator(f, v, chain, passes, out) ==
  Op("validator", NoNode,
     [factory |-> f, v |-> v, chain |-> chain, passes |-> passes, out |-> out])

ValidatorStep(f, v, chain, passes, out) ==
  /\ last' = ObsValidator(f, v, chain, passes, out)
  /\ UNCHANGED <<treeVars, arrayVars>>

NextValidators ==
  \/ \E v \in {Undefined, Null} \cup Strings \cup Numbers, ch \in Chains :
       ValidatorStep("required", v, ch, v \notin {Undefined, Null, Str("")},
                     required("own", ch, v))
  \/ \E v \in Strings, ch \in Chains :
       ValidatorStep("custom", v, ch, v.s # "", custom("own", ch, v))
  \/ \E v \in Strings, ch \in Chains :
       ValidatorStep("minLength", v, ch, length(v) >= 1, minLength(1, "own", ch, v))
  \/ \E v \in Strings, ch \in Chains :
       ValidatorStep("maxLength", v, ch, length(v) <= 1, maxLength(1, "own", ch, v))
  \/ \E v \in Numbers, ch \in Chains :
       ValidatorStep("max", v, ch, v.n <= 1, max(1, "own", ch, v))
  \/ \E v \in Numbers, ch \in Chains :
       ValidatorStep("min", v, ch, v.n >= 1, min(1, "own", ch, v))
  \/ \E v \in Strings, ch \in Chains :
       ValidatorStep("pattern", v, ch, test(v), pattern("own", ch, v))
  \/ \E v \in {Undefined, Null} \cup Strings \cup Numbers, ch \in Chains :
       ValidatorStep("equals", v, ch, v = Str("a"), equals(Str("a"), "own", ch, v))

SpecValidators == Init /\ [][NextValidators]_vars

\* ------------------------------------------------------- settled validation
\* error() as the validator would give it for the value the control has now
expected(c) == validatorOf(c, value(c)).msg

\* Here written holds the controls whose validation in flight was reached by
\* a value write or by the start of another validate() call on them.
NextSettled(F, W) ==
  \/ \E c \in F :
       /\ Mount(c)
       /\ written' = written \ {c}
       /\ UNCHANGED <<last, during, arrayVars, formVars>>
  \/ \E c \in F :
       /\ Unmount(c)
       /\ written' = written \ Owned(c)
       /\ UNCHANGED <<last, during, arrayVars, formVars>>
  \/ \E c \in W : \E lit \in Literals(c) :
       /\ SetValue(c, lit)
       /\ written' = written \cup {n \in Node : InFlight(n)}
       /\ UNCHANGED <<last, during, arrayVars, formVars, touchCount, hasRef>>
  \/ \E c \in F \cup {Root} :
       /\ Validate(c)
       /\ written' = (written \ RegSubtree(c)) \cup {n \in RegSubtree(c) : InFlight(n)}
       /\ UNCHANGED <<last, during, arrayVars, formVars, touchCount, hasRef>>
  \/ \E t \in Slots : \E n \in Node :
       /\ Settle(t, n)
       /\ UNCHANGED <<last, written, during, arrayVars, formVars, touchCount, hasRef>>
  \/ \E t \in Slots : \E n \in Node :
       /\ Finish(t, n)
       /\ UNCHANGED <<last, written, during, arrayVars, formVars, touchCount, hasRef>>

\* the fields a -> x below the root, overlapping validate() calls, writes
\* through the leaf
SpecSettled == Init /\ [][NextSettled({1, 2}, {2})]_vars

\* ------------------------------------------------------- validationMethod
\* createForm's effect: validate on every change of the value, at once or
\* from the first completed submission on.  An effect runs in the step that
\* changes what it reads; on(value, ...) without defer also runs when the
\* effect is created.
Methods == {"onSubmit", "onChange", "onChangeAfterSubmit"}

\* an effect that does not wait for isSubmitted()
AutoOn_notAfterSubmit == validationMethod \in {"onChange", "onChangeAfterSubmit"}
\* whether the inner effect  on(value, () => control.validate())  exists
AutoOn ==
  \/ validationMethod = "onChange"
  \/ validationMethod = "onChangeAfterSubmit" /\ isSubmitted

\* what a step did: whether it started a validate() call, and on what
ObsAuto(op, c, ch) ==
  Op(op, c,
     [changed |-> ch,
      submitted |-> submitCount > 0,
      started |-> Len(calls') = Len(calls) + 1,
      target |-> IF Len(calls') = Len(calls) + 1 THEN calls'[Len(calls')].target
                 ELSE NoNode])

\* createForm(props) with props.validationMethod = m, before anything else
CreateForm(m) ==
  /\ last = NoOp
  /\ validationMethod = "onSubmit"
  /\ m # "onSubmit"
  /\ calls = << >> /\ sub = Idle /\ submitCount = 0 /\ rootVal = InitialRoot
  /\ \A c \in Fld : ~mounted[c]
  /\ validationMethod' = m
  /\ IF m = "onChange"
       THEN validateNow(Root)
       ELSE UNCHANGED <<rootVal, mounted, fields, error, ownValidating,
                        isValidated, initialValue, calls>>
  /\ last' = ObsAuto("create", Root, FALSE)
  /\ UNCHANGED <<isSubmitting, submitCount, response, sub, sub2, focused, written,
                 during, touchCount, hasRef, arrayVars>>

\* setValue, then the effects on the value: the controls' setIsValidated(false)
\* and createForm's control.validate()
SetValueAuto(c, lit) ==
  /\ ~MicrotaskPending
  /\ Alive(c)
  /\ AutoOn /\ changed(c, lit, setValue(c, lit.v), Root)
  /\ Len(calls) < MaxCalls
  /\ rootVal' = setValue(c, lit.v)
  /\ LET m == RegSubtree(Root) IN
       /\ ownValidating' = [n \in Node |-> IF n \in m THEN TRUE ELSE ownValidating[n]]
       /\ isValidated' = [n \in Node |->
                            IF n \in m THEN FALSE ELSE valueEffect(c, lit, rootVal')[n]]
       /\ error' = [n \in Node |->
                      IF n \in m /\ startSelf(n)'.caught THEN startSelf(n)'.err
                      ELSE error[n]]
       /\ calls' = Append(calls,
                      [target |-> Root,
                       st |-> [n \in Node |-> IF n \in m THEN startSelf(n)'.st ELSE "-"],
                       out |-> [n \in Node |->
                                  IF n \in m THEN startSelf(n)'.out ELSE NoOutcome],
                       ret |-> [n \in Node |-> FALSE]])
  /\ UNCHANGED <<mounted, fields, initialValue>>

\* whether this step makes isSubmitted() true and with it creates the effect
EffectCreated ==
  validationMethod = "onChangeAfterSubmit" /\ submitCount = 0 /\ submitCount' = 1

NextAuto(F, W) ==
  \/ \E m \in Methods : CreateForm(m)
  \/ \E c \in F :
       /\ Mount(c)
       /\ last' = ObsAuto("mount", c, FALSE)
       /\ UNCHANGED <<written, during, arrayVars, formVars>>
  \/ \E c \in F :
       /\ Unmount(c)
       /\ last' = NoOp
       /\ UNCHANGED <<written, during, arrayVars, formVars>>
  \/ \E c \in W : \E lit \in Literals(c) :
       /\ ~(AutoOn /\ changed(c, lit, setValue(c, lit.v), Root))
       /\ SetValue(c, lit)
       /\ last' = ObsAuto("write", c, changed(c, lit, setValue(c, lit.v), Root))
       /\ UNCHANGED <<written, during, arrayVars, formVars, touchCount, hasRef>>
  \/ \E c \in W : \E lit \in Literals(c) :
       /\ SetValueAuto(c, lit)
       /\ last' = ObsAuto("write", c, TRUE)
       /\ UNCHANGED <<written, during, arrayVars, formVars, touchCount, hasRef>>
  \/ /\ Submit
     /\ last' = NoOp
     /\ UNCHANGED <<written, during, arrayVars>>
  \/ \E t \in Slots : \E n \in Node :
       /\ Settle(t, n)
       /\ last' = NoOp
       /\ UNCHANGED <<written, during, arrayVars, formVars, touchCount, hasRef>>
  \/ \E t \in Slots : \E n \in Node :
       /\ Finish(t, n)
       /\ sub' = Awaited(t, n)
       /\ last' = NoOp
       /\ UNCHANGED <<written, during, arrayVars, isSubmitting, submitCount, sub2,
                      response, focused, touchCount, hasRef, validationMethod>>
  \/ /\ ContinueForm
     /\ IF EffectCreated
          THEN validateNow(Root)
          ELSE UNCHANGED <<rootVal, mounted, fields, error, ownValidating,
                           isValidated, initialValue, calls>>
     /\ UNCHANGED arrayVars
  \/ /\ CallbackSettleForm
     /\ IF EffectCreated
          THEN validateNow(Root)
          ELSE UNCHANGED <<rootVal, mounted, fields, error, ownValidating,
                           isValidated, initialValue, calls>>
     /\ UNCHANGED arrayVars

\* a form created with each validationMethod, with the field b; writes
\* through the field and the root, submissions
SpecAuto == Init /\ [][NextAuto({3}, {Root, 3})]_vars

\* ------------------------------------------- overlapping validate() calls
\* What the validator invocations of each control did, kept in last.info:
\* msg, the message of the invocation that settled last (a synchronous throw
\* settles when validate() starts), and over, whether the validate() calls
\* now in flight on the control have overlapped.
Seen ==
  IF last.op = "none" THEN [msg |-> BlankString, over |-> BlankFlag] ELSE last.info

SeenMount(c) ==
  [msg |-> [Seen.msg EXCEPT ![c] = ""], over |-> [Seen.over EXCEPT ![c] = FALSE]]

SeenValidate(c) ==
  LET m == RegSubtree(c) IN
    [msg |-> [n \in Node |-> IF n \in m /\ validatorOf(n, value(n)).kind = "throw"
                               THEN validatorOf(n, value(n)).msg ELSE Seen.msg[n]],
     over |-> [n \in Node |-> IF n \in m THEN InFlight(n) ELSE Seen.over[n]]]

SeenSettle(t, n) ==
  [msg |-> [Seen.msg EXCEPT ![n] = calls[t].out[n].msg], over |-> Seen.over]

NextRace(F, W) ==
  \/ \E c \in F :
       /\ Mount(c)
       /\ last' = Op("mount", c, SeenMount(c))
       /\ UNCHANGED <<written, during, arrayVars, formVars>>
  \/ \E c \in W : \E lit \in Literals(c) :
       /\ SetValue(c, lit)
       /\ last' = Op("write", c, Seen)
       /\ UNCHANGED <<written, during, arrayVars, formVars, touchCount, hasRef>>
  \/ \E c \in F \cup {Root} :
       /\ Validate(c)
       /\ last' = Op("validate", c, SeenValidate(c))
       /\ UNCHANGED <<written, during, arrayVars, formVars, touchCount, hasRef>>
  \/ \E t \in Slots : \E n \in Node :
       /\ Settle(t, n)
       /\ last' = Op("settle", n, SeenSettle(t, n))
       /\ UNCHANGED <<written, during, arrayVars, formVars, touchCount, hasRef>>
  \/ \E t \in Slots : \E n \in Node :
       /\ Finish(t, n)
       /\ last' = Op("resolve", n, Seen)
       /\ UNCHANGED <<written, during, arrayVars, formVars, touchCount, hasRef>>

\* the root and the field b, whose validator throws on 0: overlapping
\* validate() calls on either, writes through both
SpecRace == Init /\ [][NextRace({3}, {Root, 3})]_vars

\* --------------------------------------- what a settle and a write leave
\* last names the control whose validator settled or through which the
\* value was written, and for a write whether the control's value() changed
NextFrame(F, W) ==
  \/ \E c \in F :
       /\ Mount(c)
       /\ last' = NoOp
       /\ UNCHANGED <<written, during, arrayVars, formVars>>
  \/ \E c \in W : \E lit \in Literals(c) :
       /\ SetValue(c, lit)
       /\ last' = Op("write", c, {n \in {c} : lit.new \/ value(c)' # value(c)})
       /\ UNCHANGED <<written, during, arrayVars, formVars, touchCount, hasRef>>
  \/ \E c \in F \cup {Root} :
       /\ MayValidate("serial")
       /\ Validate(c)
       /\ last' = NoOp
       /\ UNCHANGED <<written, during, arrayVars, formVars, touchCount, hasRef>>
  \/ \E t \in Slots : \E n \in Node :
       /\ Settle(t, n)
       /\ last' = Op("settle", n, {})
       /\ UNCHANGED <<written, during, arrayVars, formVars, touchCount, hasRef>>
  \/ \E t \in Slots : \E n \in Node :
       /\ Finish(t, n)
       /\ last' = NoOp
       /\ UNCHANGED <<written, during, arrayVars, formVars, touchCount, hasRef>>

\* the fields a -> x and b below the root: a control with an ancestor, a
\* descendant and a sibling; one validate() call at a time, writes through
\* every field
SpecFrame == Init /\ [][NextFrame({1, 2, 3}, {1, 2, 3})]_vars

\* ------------------------------------------------------------------ claims
Resolved == last.op = "resolve"

\* what the validator did counts as "returned the empty string"
ReturnedEmpty(o) == o.kind \in {"none", "ret"} /\ o.msg = ""

\* C1: a validate() call resolves true exactly when the node's own validator
\* returned "" (or there is none) and every child call it started, one per
\* child registered when it was made, resolved true; children registered
\* later play no part.
C1_ValidateResult ==
  Resolved =>
    (last.info.result <=>
       ReturnedEmpty(last.info.own) /\ last.info.kidsTrue = last.info.kids)

\* C1 witness: a call on the root resolves true although a field registered
\* after the call was made is not valid
C1_Witness ==
  /\ Resolved
  /\ last.node = Root
  /\ last.info.result
  /\ \E d \in Children(Root) : d \notin last.info.kids /\ ~isValid(d)

\* C2 (as stated): when a validate() call on a node resolves, isValidated is
\* true and isValidating is false for the node and every control that was its
\* descendant when the call was made (and is still mounted), whatever else
\* happened while the call was in flight.
C2_AtResolution ==
  Resolved =>
    \A n \in last.info.members :
      Alive(n) => isValidated[n] /\ ~isValidating(n)

\* C2 (amended): the same, for a call during which no value was written and
\* no other validate() call was in flight.
C2_AtResolutionUndisturbed ==
  Resolved /\ last.info.during = {} =>
    \A n \in last.info.members :
      Alive(n) => isValidated[n] /\ ~isValidating(n)

\* C2 witness: an undisturbed call on the root resolves over a -> x
C2_Witness ==
  /\ Resolved
  /\ last.node = Root
  /\ last.info.during = {}
  /\ last.info.members = {Root, 1, 2}
  /\ mounted[1] /\ mounted[2]

\* C3: the batch that sets isValidated (and clears _isValidating) of a node
\* runs only after the node's own validator and every child validate() the
\* call started have settled: no call of the fan-out below the node is still
\* pending when the node resolves, and no node of a call is done before the
\* nodes it fanned out to.
C3_ValidatedAfterFanOut ==
  /\ Resolved => last.info.pending = {}
  /\ \A t \in Active : \A n \in Node :
       calls[t].st[n] = "D" => \A d \in Kids(t, n) : calls[t].st[d] = "D"

\* C3 witness: the call on field a resolves, having fanned out to x
C3_Witness ==
  /\ Resolved
  /\ last.node = 1
  /\ last.info.kids = {2}
  /\ isValidated[1]

\* C4 (as stated): isValidating() of a control is true whenever a validate()
\* call on it or on a registered descendant has started and not resolved,
\* however many calls overlap.
C4_WhileInFlight ==
  \A n \in Node :
    Alive(n) => \A m \in RegSubtree(n) : InFlight(m) => isValidating(n)

\* C4 (amended): the same, as long as no validate() call was started while
\* another was in flight.
C4_WhileInFlightAlone ==
  "overlap" \notin during =>
    \A n \in Node :
      Alive(n) => \A m \in RegSubtree(n) : InFlight(m) => isValidating(n)

\* C4 witness: a lone call on field a; the root is validating through it
C4_Witness ==
  /\ "overlap" \notin during
  /\ Len(calls) = 1
  /\ calls[1].target = 1
  /\ InFlight(2)
  /\ ~ownValidating[Root]
  /\ isValidating(Root)

\* C5 (as stated): a control whose isValid() is true is validated, has no
\* error, and every child registered in its fields map is valid as well.
C5_ValidMeansChildrenValid ==
  \A n \in Node :
    Alive(n) /\ isValid(n) =>
      /\ isValidated[n]
      /\ error[n] = ""
      /\ \A d \in Children(n) : isValid(d)

\* C6 (as stated): isInvalid() of a control is true exactly when the control
\* is validated and its own error is non-empty or a registered child is
\* invalid; never when the control itself is not validated.
C6_InvalidIffValidated ==
  \A n \in Node :
    Alive(n) =>
      (isInvalid(n) <=>
         isValidated[n] /\ (error[n] # "" \/ \E d \in Children(n) : isInvalid(d)))

\* C7 (as stated): every value write through a control leaves its isValidated
\* false, and after a write that follows a completed validation isValid() and
\* isInvalid() of the control both read false.
C7_AfterWrite ==
  last.op = "write" =>
    /\ ~isValidated[last.node]
    /\ last.info.wasValidated => ~isValid(last.node) /\ ~isInvalid(last.node)

\* C7 (amended): a write that changes the control's value (a new object, or
\* a leaf other than the current one) leaves isValidated and isValid() false,
\* and isInvalid() false as well if the control was valid before the write.
C7_AfterChange ==
  last.op = "write" /\ last.info.changed =>
    /\ ~isValidated[last.node]
    /\ ~isValid(last.node)
    /\ last.info.wasValid => ~isInvalid(last.node)

\* C7 witness: a control that was valid has just been written with another
\* value
C7_Witness ==
  /\ last.op = "write"
  /\ last.info.changed
  /\ last.info.wasValid
  /\ ~isValidated[last.node]

\* C8 (as stated): a control is pristine exactly when no setValue has been
\* called on it (directly, or by the lens of a field below it) since it was
\* constructed.
C8_PristineIffUnwritten ==
  \A c \in Node : Alive(c) => (isPristine(c) <=> c \notin written)

\* C8 (amended): isPristine() compares the current value with the initial one
\* by identity, so after a write through a control every control above it is
\* dirty, and so is the control itself when the value written is a new
\* object, structurally identical or not.
C8_WriteMakesDirty ==
  last.op = "write" =>
    /\ \A a \in Ancestors(last.node) : isDirty(a)
    /\ last.info.new => isDirty(last.node)

\* C8 witness: field a written with a new object holding what it held at
\* construction
C8_Witness ==
  /\ last.op = "write"
  /\ last.node = 1
  /\ last.info.new
  /\ value(1).x = initialValue[1].x
  /\ isDirty(1)

\* C9 (as stated): the fields map of a control holds exactly the field
\* bindings currently mounted under it.
C9_FieldsExact ==
  \A c \in Fld : mounted[c] <=> c \in Children(parentOf(c))

\* C10: once a field binding has been unregistered, its parent's fields map
\* has no entry under its key, and the control is outside everything the
\* parent folds over: fieldArray (isInvalid, isValid, isValidating) and the
\* fan-out of validate().
C10_Unregistered ==
  last.op = "unmount" =>
    LET c == last.node
        p == parentOf(last.node) IN
      /\ \A i \in 1..Len(fields[p]) : fields[p][i].name # nameOf(c)
      /\ \A i \in 1..Len(fieldArray(p)) : fieldArray(p)[i] # c
      /\ c \notin RegSubtree(p)
      /\ isInvalid(p) <=>
           (isValidated[p] /\ error[p] # "") \/ \E d \in Children(p) \ {c} : isInvalid(d)
      /\ isValidating(p) <=>
           ownValidating[p] \/ \E d \in Children(p) \ {c} : isValidating(d)

\* C10 witness: a field binding is registered and unregistered at once,
\* below a parent that has been validated
C10_Witness ==
  /\ last.op = "unmount"
  /\ last.info.prevOp = "mount"
  /\ last.info.prevNode = last.node
  /\ isValidated[parentOf(last.node)]
  /\ fields[parentOf(last.node)] = NoFields

\* C11 (as stated): after setValue(x) of a field bound to index k of the
\* array, or to a key of the form, the parent reads x at k (so field.value()
\* reads x), every other index and key holds what it held, and the length of
\* the array is what it was - at every index k.
C11_LensFrame ==
  /\ last.op = "item" =>
       /\ at(aval.list, last.node) = last.info.x
       /\ \A i \in Idx : i # last.node => at(aval.list, i) = at(last.info.before, i)
       /\ Len(aval.list) = Len(last.info.before)
       /\ aval.other = last.info.other
  /\ last.op = "other" =>
       /\ aval.other = last.info.x
       /\ aval.list = last.info.before

\* C11 (amended): the same for an index k that lies within the array,
\* 0 <= k < length.
C11_LensFrameInRange ==
  /\ last.op = "item" /\ last.node >= 0 /\ last.node < Len(last.info.before) =>
       /\ at(aval.list, last.node) = last.info.x
       /\ \A i \in Idx : i # last.node => at(aval.list, i) = at(last.info.before, i)
       /\ Len(aval.list) = Len(last.info.before)
       /\ aval.other = last.info.other
  /\ last.op = "other" =>
       /\ aval.other = last.info.x
       /\ aval.list = last.info.before

\* C11 witness: the item in the middle of three is given a new value
C11_Witness ==
  /\ last.op = "item"
  /\ last.node = 1
  /\ Len(last.info.before) = 3
  /\ at(last.info.before, 1) # last.info.x
  /\ at(aval.list, 1) = last.info.x

C13_BranchByResult ==
  last.op = "submitted" =>
    /\ last.info.valid = 1 <=> last.info.result
    /\ ~last.info.result => last.info.focusCalls = 1 /\ last.info.invalid = 1

\* C13 (amended): the branch follows control.isValid() read after the await;
\* it agrees with the result of the awaited validate() when no value was
\* written, no field was mounted or unmounted and no other validate() call
\* started while validate() calls were in flight.
C13_BranchByResultUndisturbed ==
  last.op = "submitted" =>
    /\ last.info.valid = 1 <=> last.info.formValid
    /\ last.info.invalid = 1 <=> last.info.focusCalls = 1
    /\ last.info.during = {} =>
         /\ last.info.valid = 1 <=> last.info.result
         /\ ~last.info.result => last.info.focusCalls = 1 /\ last.info.invalid = 1

\* C13 witness: an undisturbed submission whose validation resolved false;
\* focusError() focused the field and onInvalid ran
C13_Witness ==
  /\ last.op = "submitted"
  /\ last.info.during = {}
  /\ ~last.info.result
  /\ last.info.invalid = 1
  /\ last.info.focusCalls = 1
  /\ focused = 3

\* C14: while the callback runs the previous response is cleared; when the
\* call completes, response() holds the callback's result after a normal
\* return and the exception after a throw or a rejection; the call completes
\* on each of these paths (it does not reject).
C14_ResponseKept ==
  /\ sub.phase = "callback" => response = NoResponse
  /\ last.op = "submitted" =>
       /\ sub.phase = "idle"
       /\ response = last.info.response
       /\ last.info.out = "ret" => response = [kind |-> "result", from |-> last.info.cb]
       /\ last.info.out \in {"throw", "reject"} =>
            response = [kind |-> "error", from |-> last.info.cb]

\* C14 witness: a second submission, whose callback's promise rejects
C14_Witness ==
  /\ last.op = "submitted"
  /\ last.info.before = 1
  /\ last.info.out = "reject"
  /\ response.kind = "error"

\* C15: when the validator of a control throws or returns a promise that
\* rejects, validate() of that control resolves false, and at that moment (for
\* a control still mounted) error() is the text of the exception, the own
\* validating flag is false and isValidated is true; an ancestor whose fan-out
\* contains such a control resolves false with every member done, and no call
\* in flight is left without a step to take.
C15_ValidatorThrows ==
  /\ Resolved /\ last.info.own.kind \in {"throw", "reject"} =>
       /\ ~last.info.result
       /\ Alive(last.node) =>
            /\ error[last.node] = last.info.own.msg
            /\ ~ownValidating[last.node]
            /\ isValidated[last.node]
  /\ Resolved /\ (\E d \in last.info.kids : Alive(d) /\ error[d] = "boom") =>
       /\ ~last.info.result
       /\ last.info.pending = {}
  /\ \A t \in Active : \E n \in Node : calls[t].st[n] = "P" \/ Ready(t, n)

\* C15 witness: validate() of b, whose validator threw, has resolved inside
\* a fan-out of the root that is still in flight
C15_Witness ==
  /\ Resolved
  /\ last.node = 3
  /\ last.info.own.kind = "throw"
  /\ error[3] = "boom"
  /\ isValidated[3]
  /\ Len(calls) = 1

\* C16 (as stated): for every array, index i and item x, insert(i, x)
\* followed by remove(i) restores the array.
C16_InsertRemove ==
  last.op = "remove" /\ last.info.prev = "insert" =>
    aval.list = last.info.undoes[1]

\* C16 (amended): the same for an index inside the array or at its end,
\* 0 <= i <= length.
C16_InsertRemoveInRange ==
  /\ last.op = "remove"
  /\ last.info.prev = "insert"
  /\ last.node >= 0
  /\ last.node <= Len(last.info.undoes[1])
  => aval.list = last.info.undoes[1]

\* C16 witness: an item inserted in the middle of a two-element array and
\* removed again
C16_Witness ==
  /\ last.op = "remove"
  /\ last.info.prev = "insert"
  /\ last.node = 1
  /\ Len(aval.list) = 2
  /\ aval.list = last.info.undoes[1]

\* C17 (as stated): for every pair of indices a and b, swap(a, b) applied
\* twice restores the array (same length, same elements), and a single
\* swap(a, b) changes no position other than a and b.
C17_SwapTwice ==
  last.op = "swap" =>
    /\ \A k \in Idx : k \notin {last.node, last.info.j} =>
         at(aval.list, k) = at(last.info.before, k)
    /\ last.info.prev = "swap" => aval.list = last.info.undoes[1]

\* C17 (amended): the same for indices inside the array, 0 <= a, b < length;
\* then a single swap keeps the length too.
C17_SwapTwiceInRange ==
  last.op = "swap" =>
    /\ {last.node, last.info.j} \subseteq 0..(Len(last.info.before) - 1) =>
         /\ Len(aval.list) = Len(last.info.before)
         /\ at(aval.list, last.node) = at(last.info.before, last.info.j)
         /\ at(aval.list, last.info.j) = at(last.info.before, last.node)
         /\ \A k \in Idx : k \notin {last.node, last.info.j} =>
              at(aval.list, k) = at(last.info.before, k)
    /\ /\ last.info.prev = "swap"
       /\ {last.node, last.info.j} \subseteq 0..(Len(last.info.undoes[1]) - 1)
       => aval.list = last.info.undoes[1]

\* C17 witness: two different items swapped and swapped back
C17_Witness ==
  /\ last.op = "swap"
  /\ last.info.prev = "swap"
  /\ last.node = 0
  /\ last.info.j = 2
  /\ at(last.info.before, 0) # at(last.info.before, 2)
  /\ Len(aval.list) = 3
  /\ aval.list = last.info.undoes[1]

\* C18: append(x) followed by remove(length - 1), the length read after the
\* append, restores the array.
C18_AppendRemove ==
  last.op = "remove" /\ last.info.prev = "append" =>
    aval.list = last.info.undoes[1]

\* C18 witness: an item appended to a two-element array and removed again
C18_Witness ==
  /\ last.op = "remove"
  /\ last.info.prev = "append"
  /\ last.node = 2
  /\ Len(aval.list) = 2

\* C19: a field control mounted at key k, also after an earlier control was
\* mounted and unmounted at k, starts with initialValue equal to the parent's
\* value at k at the moment of mounting, pristine, with error "", isValidated
\* false, isValidating false and touchCount 0: nothing the earlier control
\* held carries over.
C19_MountedFresh ==
  last.op = "mount" =>
    LET c == last.node IN
      /\ initialValue[c] = last.info.parentValue
      /\ initialValue[c] = value(c)
      /\ isPristine(c)
      /\ error[c] = ""
      /\ ~isValidated[c]
      /\ ~isValidating(c)
      /\ ~isInvalid(c)
      /\ touchCount[c] = 0

\* C19 witness: b is mounted right after a control at b was unmounted that was
\* dirty, touched, validated and in error
C19_Witness ==
  /\ last.op = "mount"
  /\ last.node = 3
  /\ last.info.had.dirty
  /\ last.info.had.error = "boom"
  /\ last.info.had.isValidated
  /\ last.info.had.touchCount = 1
  /\ rootVal.b = 0

\* C20 (as stated): after insert(i, x), prepend(x) or remove(i), every item at
\* a position later than the mutation point is represented by a freshly
\* created control: its initialValue is the item, its error is "", it is not
\* validated and its touchCount is 0.
C20_LaterItemsFresh ==
  /\ last.op \in {"insert", "prepend"} =>
       \A k \in 1..Len(items) : k - 1 > last.node => items[k] = freshItem(aval.list[k])
  /\ last.op = "remove" =>
       \A k \in 1..Len(items) : k - 1 >= last.node => items[k] = freshItem(aval.list[k])

\* C21: focusError() on a control returns true if and only if some control
\* reachable from it through the fields maps (itself included) has an element
\* and is invalid; then the element focused is that of the first such control,
\* a parent before its fields and the fields in registration order; when it
\* returns false the focus stays where it was; no signal of any control
\* changes.
C21_FocusFirstInvalid ==
  [][last'.op = "focus" =>
       LET po == preorderOf(<<last'.node>>)
           hits == {i \in 1..Len(po) : hasRef[po[i]] /\ isInvalid(po[i])}
       IN /\ last'.info.ret <=> hits # {}
          /\ hits # {} => focused' = po[CHOOSE i \in hits : \A j \in hits : i <= j]
          /\ hits = {} => focused' = focused
          /\ UNCHANGED <<rootVal, mounted, fields, error, ownValidating,
                         isValidated, initialValue, calls, touchCount, hasRef>>]_vars

\* C21 witness: focusError() on the root, which has no element; a (not
\* invalid itself by an error of its own) and b have elements and are invalid,
\* b was registered first and received the focus
C21_Witness ==
  /\ last.op = "focus"
  /\ last.node = Root
  /\ last.info.ret
  /\ ~hasRef[Root]
  /\ fieldArray(Root) = <<3, 1>>
  /\ hasRef[1] /\ isInvalid(1)
  /\ hasRef[3] /\ isInvalid(3)
  /\ focused = 3
  /\ last.info.before = 1

\* C22 (as stated): a validator built by any factory with a chained next
\* validator returns the factory's own message whenever the factory's own
\* check fails, and the chained validator's result whenever it passes.
C22_ChainAfterOwnCheck ==
  last.op = "validator" /\ last.info.chain.present =>
    /\ ~last.info.passes => last.info.out = "own"
    /\ last.info.passes => last.info.out = last.info.chain.r

C24_DirtyFoldsOverFields ==
  \A n \in Node :
    Alive(n) => \A d \in Children(n) : isDirty(d) => isDirty(n)

\* C25: with validationMethod 'onSubmit' no value write starts a validation;
\* with 'onChangeAfterSubmit' no write and no mount starts one before the
\* first handleSubmit has completed, and after it every change of the root
\* value starts a validate() on the root; with 'onChange' every change of the
\* root value starts a validate() on the root.
C25_ValidationMethod ==
  /\ last.op = "write" =>
       /\ validationMethod = "onSubmit" => ~last.info.started
       /\ validationMethod = "onChangeAfterSubmit" /\ ~last.info.submitted =>
            ~last.info.started
       /\ /\ validationMethod = "onChangeAfterSubmit"
          /\ last.info.submitted
          /\ last.info.changed
          => last.info.started /\ last.info.target = Root
       /\ validationMethod = "onChange" /\ last.info.changed =>
            last.info.started /\ last.info.target = Root
  /\ last.op = "mount" =>
       /\ validationMethod = "onSubmit" => ~last.info.started
       /\ validationMethod = "onChangeAfterSubmit" /\ ~last.info.submitted =>
            ~last.info.started

\* C25 witness: with 'onChangeAfterSubmit', after a submission, a write
\* through the field b has started a validate() on the root next to one
\* still in flight
C25_Witness ==
  /\ validationMethod = "onChangeAfterSubmit"
  /\ last.op = "write"
  /\ last.node = 3
  /\ last.info.submitted
  /\ last.info.started
  /\ Len(calls) = 2
  /\ calls[2].target = Root
\* C26: isSubmitting() is true in every state in which an onValid or
\* onInvalid callback of some handleSubmit call has been invoked and has not
\* yet settled, also when two handleSubmit calls overlap, and it is false
\* whenever no handleSubmit call is in flight.
C26_SubmittingWhileCallback ==
  /\ (\E r \in {sub, sub2} : r.phase = "callback") => isSubmitting
  /\ InFlightSubmits = {} => ~isSubmitting

\* C27 as stated: no node is ever seen with isValidating() and isValidated()
\* both true.
C27_NeverValidatingAndValidated ==
  \A n \in Node : ~(isValidating(n) /\ isValidated[n])

\* C27: validate() sets a node's own flags together - (_isValidating,
\* isValidated) becomes (true, false) at the start and (false, true) at the
\* end - so no node's own validating flag and isValidated are both true.
\* isValidating() also covers the registered fields: it is true together with
\* isValidated() only while a validate() call is in flight on a descendant.
C27_OwnFlagsExclusive ==
  \A n \in Node :
    /\ ~(ownValidating[n] /\ isValidated[n])
    /\ isValidating(n) /\ isValidated[n] =>
         \E d \in RegSubtree(n) \ {n} : InFlight(d)

\* a validated node one of whose fields is being validated on its own
C27_Witness ==
  \E n \in Node : isValidated[n] /\ isValidating(n) /\ ~ownValidating[n]

\* C28: when validate() calls on the same node overlap, none is cancelled or
\* serialised: once the last of them has resolved, the node's error() is the
\* message of the validator invocation that settled last (even if that
\* invocation read an older value than another call), its own validating
\* flag is false and isValidated is true.
C28_LastSettledWins ==
  [][\A n \in Node :
       (/\ last'.op = "resolve" /\ last'.node = n
        /\ Alive(n)'
        /\ last'.info.over[n]
        /\ ~InFlight(n)')
       => /\ error'[n] = last'.info.msg[n]
          /\ ~ownValidating'[n]
          /\ isValidated'[n]]_vars

\* overlapping calls on the root have all resolved, and the invocation that
\* settled last had read an older value: the error is not the one of the
\* current value
C28_Witness ==
  /\ last.op = "resolve" /\ last.node = Root
  /\ last.info.over[Root]
  /\ ~InFlight(Root)
  /\ error[Root] = last.info.msg[Root]
  /\ error[Root] # validatorOf(Root, value(Root)).msg

\* C29: a validator's outcome is stored only on the node that ran it: the
\* settling of a node's validator (message, "" or exception) sets that node's
\* error() to the outcome and leaves the error() of every other node -
\* ancestors, descendants and siblings - unchanged; an exception thrown when
\* validate() starts is stored at once, on the node whose validator threw.
C29_OutcomeStoredOnOwnNode ==
  [][/\ last'.op = "settle" =>
          /\ \E t \in Active :
               /\ calls[t].st[last'.node] = "P"
               /\ calls'[t].st[last'.node] = "S"
               /\ error'[last'.node] = calls[t].out[last'.node].msg
          /\ \A m \in Node \ {last'.node} : error'[m] = error[m]
     /\ Len(calls') > Len(calls) =>
          \A m \in Node :
            error'[m] # error[m] =>
              /\ validatorOf(m, value(m)).kind = "throw"
              /\ error'[m] = validatorOf(m, value(m)).msg]_vars

\* the validator of a.x has settled with its message while the parent a, the
\* root above it and the sibling b keep the errors they had
C29_Witness ==
  /\ last.op = "settle" /\ last.node = 2
  /\ error[2] = "req"
  /\ mounted[3] /\ error[3] = "boom"
  /\ error[1] = "" /\ error[Root] = "same"

\* the fields at other keys of the parent of c, and their descendants
SiblingSide(c) ==
  {d \in Fld \ {c} :
     \E s \in ({d} \cup Ancestors(d)) \ {Root, c} :
       parentOf(s) = parentOf(c) /\ nameOf(s) # nameOf(c)}

\* C30: a value write through one field does not cascade a validated-reset:
\* it leaves isValidated, error and isValidating of every sibling field
\* (fields at other keys of the same parent) and of their descendants
\* unchanged.
C30_WriteLeavesSiblings ==
  [][last'.op = "write" /\ last'.node # Root =>
       \A d \in SiblingSide(last'.node) :
         /\ isValidated'[d] = isValidated[d]
         /\ error'[d] = error[d]
         /\ isValidating(d)' = isValidating(d)]_vars

\* a write through b has reset b and the root while the sibling a and its
\* field x are still validated, x with its error
C30_Witness ==
  /\ last.op = "write" /\ last.node = 3
  /\ ~isValidated[3] /\ ~isValidated[Root]
  /\ isValidated[1] /\ isValidated[2] /\ error[2] = "req"

C32_OneControlPerIndex ==
  /\ Len(afields) = Len(aval.list)
  /\ Len(items) = Len(aval.list)
  /\ \A k \in 1..Len(afields) : afields[k].name \in 0..(Len(aval.list) - 1)
  /\ \A i \in 0..(Len(aval.list) - 1) :
       \E k \in 1..Len(afields) :
         /\ afields[k].name = i
         /\ afields[k].ctl = i + 1
         /\ \A h \in 1..Len(afields) : afields[h].name = i => h = k

\* the array has grown to three items and then lost one: two entries remain
C32_Witness ==
  /\ last.op = "remove"
  /\ Len(last.info.before) = MaxLen
  /\ Len(aval.list) = MaxLen - 1
  /\ Len(afields) = MaxLen - 1

\* the sequence p without the element at index i
without(p, i) ==
  IF i >= 0 /\ i < Len(p) THEN SubSeq(p, 1, i) \o SubSeq(p, i + 2, Len(p)) ELSE p

\* C33 as stated: remove(i) yields the sequence without the element at
\* position i, the others in their order, and append(x) the previous sequence
\* followed by x; each commits a new array through the lens and does not
\* alter the previous array.
C33_RemoveAppend ==
  /\ last.op = "remove" => aval.list = without(last.info.before, last.node)
  /\ last.op = "append" => aval.list = last.info.before \o <<last.info.x>>
  /\ last.op \in {"remove", "append"} =>
       last.info.left = last.info.before /\ aval.other = last.info.other

\* C33 (amended): the same for an index 0 <= i < length; remove(i) with
\* i >= length removes nothing, and a negative i counts from the end of the
\* array (remove(-1) removes the last element).
C33_RemoveAppendInRange ==
  /\ last.op = "remove" =>
       aval.list = without(last.info.before,
                           IF last.node >= 0 THEN last.node
                           ELSE Max2(Len(last.info.before) + last.node, 0))
  /\ last.op = "append" => aval.list = last.info.before \o <<last.info.x>>
  /\ last.op \in {"remove", "append"} =>
       last.info.left = last.info.before /\ aval.other = last.info.other

\* the first of three items has been removed: the other two moved up
C33_Witness ==
  /\ last.op = "remove" /\ last.node = 0
  /\ Len(last.info.before) = MaxLen
  /\ aval.list = Tail(last.info.before)
  /\ last.info.before[1] # last.info.before[2]

\* the sequence p with x at index i and every other position as it was
overwritten(p, i, x) == [k \in 1..Len(p) |-> IF k = i + 1 THEN x ELSE p[k]]

\* C34 as stated: replace(i, x) overwrites position i in place: for every
\* index i the resulting sequence has the same length as before, holds x at
\* position i, and is unchanged at every other position.
C34_ReplaceInPlace ==
  last.op = "replace" =>
    /\ Len(aval.list) = Len(last.info.before)
    /\ at(aval.list, last.node) = last.info.x
    /\ \A k \in 0..(Len(aval.list) - 1) :
         k # last.node => at(aval.list, k) = at(last.info.before, k)

\* C34 (amended): the same for an index 0 <= i < length; replace(i, x) with
\* i >= length appends x, and a negative i counts from the end of the array.
C34_ReplaceInPlaceInRange ==
  last.op = "replace" =>
    LET p == last.info.before
        i == IF last.node >= 0 THEN last.node ELSE Max2(Len(p) + last.node, 0)
    IN /\ aval.list = IF i < Len(p) THEN overwritten(p, i, last.info.x)
                       ELSE p \o <<last.info.x>>
       /\ aval.other = last.info.other

\* the middle one of three items has been replaced by a different value
C34_Witness ==
  /\ last.op = "replace" /\ last.node = 1
  /\ Len(last.info.before) = MaxLen
  /\ last.info.before[2] # last.info.x
  /\ aval.list = overwritten(last.info.before, 1, last.info.x)

\* C35: getErrorList(control) returns exactly the non-empty error() strings
\* of the control and all its registered descendants, in depth-first order
\* with a parent before its children and children in fields-map order (it is
\* a function of the state and changes nothing).
C35_ErrorListInPreorder ==
  \A c \in Node :
    Alive(c) =>
      LET order == preorderOf(<<c>>)
          errors == [k \in 1..Len(order) |-> error[order[k]]]
      IN getErrorList(c) = SelectSeq(errors, LAMBDA e : e # "")

\* b was registered before a: its error comes before the error of a.x, after
\* the root's own, and the empty error of a is left out
C35_Witness ==
  /\ fieldArray(Root) = <<3, 1>> /\ fieldArray(1) = <<2>>
  /\ getErrorList(Root) = <<"same", "boom", "req">>
  /\ getErrorList(1) = <<"req">>

\* C36: custom(fn, msg) passes validation when fn returns true: the validator
\* returns "" (or the chained validator's result) for every value v with
\* fn(v) true, and returns msg for every value v with fn(v) false.
C36_CustomPassesWhenTrue ==
  last.op = "validator" /\ last.info.factory = "custom" =>
    /\ last.info.passes => last.info.out = chained(last.info.chain, "")
    /\ ~last.info.passes => last.info.out = "own"

\* C37: the value passed to onValid by handleSubmit is the root value on
\* which that handleSubmit's validation ran: if the root value is written
\* while the validation is in flight, onValid is not invoked with a value
\* whose validators were never run.
C37_OnValidGetsValidatedValue ==
  [][sub.phase = "validated" /\ sub'.cb = "onValid"
       => content(rootVal) \in written]_vars

\* C38: if every validator invocation eventually settles, then every
\* validate() call eventually resolves, every handleSubmit call whose
\* callback settles eventually completes, and once no call is in flight
\* every node's isValidating() is false; unmounting a child while its
\* validation is in flight does not prevent the parent's validate() from
\* resolving.
C38_EveryCallResolves ==
  /\ (Len(calls) > 0) ~> (Len(calls) = 0)
  /\ (sub.phase # "idle") ~> (sub.phase = "idle")
  /\ [](Len(calls) = 0 => \A n \in Node : ~isValidating(n))

\* a validate() call on the root has resolved although the field it had
\* reached was unmounted meanwhile
C38_Witness ==
  /\ last.op = "resolve" /\ last.node = Root
  /\ last.info.gone = {3}
  /\ Len(calls) = 0
  /\ ~isValidating(Root)

C40_SubmitCountCountsCalls ==
  /\ [][/\ submitCount' >= submitCount
        /\ submitCount' # submitCount =>
             last'.op = "submitted" /\ submitCount' = submitCount + 1
        /\ isSubmitted' /\ ~isSubmitted => last'.op = "submitted"]_vars
  /\ [](InFlightSubmits = {} => submitCount = Cardinality(written))
  /\ [](isSubmitted <=> submitCount > 0)
  /\ [](written = {} => ~isSubmitted)

\* two handleSubmit calls that overlapped have both completed
C40_Witness ==
  /\ InFlightSubmits = {}
  /\ submitCount = 2 /\ isSubmitted
  /\ \E m \in written : m.overlaps

====
